---- MODULE Spec2Model ----
(***************************************************************************)
(* Model of the Hone TypeScript SDK's entity-template engine               *)
(* (src/src/agent.ts), of the client calls that drive it, track()          *)
(* included (src/src/client.ts) with the message normalisers it uses       *)
(* (src/unnamed/part_016), and of the BackgroundProcessor that batches      *)
(* tracking calls (src/unnamed/part_018).                                  *)
(*                                                                         *)
(* Strings are sequences of one-character strings.  The fixed pieces of a  *)
(* message that the source writes as template-literal text (for example    *)
(* "Missing parameter") are kept as one element each; everything that is   *)
(* scanned or substituted (templates, keys, values, ids) is per character. *)
(*                                                                         *)
(* A JavaScript object is a sequence of [key, value] entries in the order  *)
(* Object.entries yields them: array indices ascending, then the other     *)
(* keys in insertion order (DefineProp).  An assignment obj[key] = value   *)
(* to a plain object goes through the accessor of Object.prototype when    *)
(* the key is "__proto__" (SetProp).  The keys of the params given as      *)
(* inputs are words over [A-Za-z0-9_] that are not canonical array         *)
(* indices, "__proto__" among them, and the one punctuated key "a-b"; an   *)
(* extra has an array index among its keys.  The pattern `{{key}}`         *)
(* compiles to is a literal text, except for a key of digits (RegExpOf).   *)
(* Keys with other pattern syntax are not modelled.                        *)
(***************************************************************************)
EXTENDS Integers, Sequences, FiniteSets, TLC

VARIABLES
  pc,          \* position of the modelled call
  call,        \* [method, id, options]: the caller's arguments
  built,       \* outcome of getAgentNode / getToolNode / getTextPromptNode
  request,     \* body handed to makeRequest by the call
  httpCount,   \* number of fetch() calls issued
  steps,       \* the steps the call has performed, in order
  response,    \* what makeRequest produced: a body or a failure
  updated,     \* the tree returned by updateAgentNodes / updateEntityNodes
  result,      \* how the returned promise settled
  evaluation,  \* outcome of evaluateEntity: of the built tree under SpecTree,
               \* of the overlaid tree under Spec
  prompt,      \* insertParamsIntoPrompt: first argument
  params,      \* insertParamsIntoPrompt: second argument
  substituted, \* insertParamsIntoPrompt: returned string
  processor    \* a BackgroundProcessor: its fields, its processQueue runs in
               \* flight, its flush() and shutdown() calls, and the promises
               \* enqueue() returned

vars == <<pc, call, built, request, httpCount, steps, response, updated,
          result, evaluation, prompt, params, substituted, processor>>

-----------------------------------------------------------------------------
(* Characters and strings                                                  *)

\* The class \w of the placeholder regex: [A-Za-z0-9_].
WordChars ==
  { "a","b","c","d","e","f","g","h","i","j","k","l","m","n","o","p","q","r",
    "s","t","u","v","w","x","y","z",
    "A","B","C","D","E","F","G","H","I","J","K","L","M","N","O","P","Q","R",
    "S","T","U","V","W","X","Y","Z",
    "0","1","2","3","4","5","6","7","8","9","_" }

\* The character U+0060 (a TLA+ string cannot hold it).
Backtick == "U+0060"

\* s[i..j], empty when j < i.
Slice(s, i, j) == IF j < i THEN <<>> ELSE SubSeq(s, i, j)

\* s starts with p at position i.
StartsAt(s, p, i) ==
  /\ i + Len(p) - 1 <= Len(s)
  /\ \A k \in 1..Len(p) : s[i + k - 1] = p[k]

\* The text `{{key}}`.
Placeholder(key) == <<"{", "{">> \o key \o <<"}", "}">>

\* Array.prototype.join.
RECURSIVE Join(_, _)
Join(items, sep) ==
  IF Len(items) = 0 THEN <<>>
  ELSE IF Len(items) = 1 THEN items[1]
  ELSE items[1] \o sep \o Join(Tail(items), sep)

\* [...new Set(items)]: first occurrences, in order.
RECURSIVE Unique(_)
Unique(items) ==
  IF Len(items) = 0 THEN <<>>
  ELSE LET front == Unique(SubSeq(items, 1, Len(items) - 1))
           last  == items[Len(items)]
       IN IF \E k \in 1..Len(front) : front[k] = last
            THEN front ELSE Append(front, last)

-----------------------------------------------------------------------------
(* JavaScript objects with string keys                                     *)

\* Object.keys of an object.
Keys(obj) == [k \in 1..Len(obj) |-> obj[k].key]

KeySet(obj) == { obj[k].key : k \in 1..Len(obj) }

\* Properties every object literal inherits from Object.prototype; the
\* `in` operator finds them although they are not own keys.
ObjectPrototypeKeys ==
  { <<"c","o","n","s","t","r","u","c","t","o","r">>,
    <<"t","o","S","t","r","i","n","g">>,
    <<"v","a","l","u","e","O","f">>,
    <<"h","a","s","O","w","n","P","r","o","p","e","r","t","y">>,
    <<"i","s","P","r","o","t","o","t","y","p","e","O","f">>,
    <<"t","o","L","o","c","a","l","e","S","t","r","i","n","g">>,
    <<"p","r","o","p","e","r","t","y","I","s","E","n","u","m","e","r","a","b","l","e">>,
    <<"_","_","d","e","f","i","n","e","G","e","t","t","e","r","_","_">>,
    <<"_","_","d","e","f","i","n","e","S","e","t","t","e","r","_","_">>,
    <<"_","_","l","o","o","k","u","p","G","e","t","t","e","r","_","_">>,
    <<"_","_","l","o","o","k","u","p","S","e","t","t","e","r","_","_">>,
    <<"_","_","p","r","o","t","o","_","_">> }

\* key in obj
In(key, obj) == key \in KeySet(obj) \/ key \in ObjectPrototypeKeys

\* obj[key] for an own key.
Get(obj, key) == LET k == CHOOSE k \in 1..Len(obj) : obj[k].key = key
                 IN obj[k].value

\* map.set(key, value) of a Map: a key of the map keeps its place, a new
\* key goes last.
MapSet(map, key, value) ==
  IF key \in KeySet(map)
    THEN [k \in 1..Len(map) |->
            IF map[k].key = key THEN [key |-> key, value |-> value] ELSE map[k]]
    ELSE Append(map, [key |-> key, value |-> value])

\* A property defined on an object, as an object spread and JSON.parse do:
\* an own key keeps its place.  A new key that is an array index (the
\* canonical decimal of an integer below 2^32 - 1) goes among the array
\* indices, which come first in ascending order; any other new key goes
\* last.
DefineProp(obj, key, value) ==
  LET Digit(c) == c \in { "0","1","2","3","4","5","6","7","8","9" }
      DigitValue(c) == CHOOSE n \in 0..9 : ToString(n) = c
      \* a < b for canonical decimals
      Less(a, b) ==
        \/ Len(a) < Len(b)
        \/ /\ Len(a) = Len(b)
           /\ \E i \in 1..Len(a) :
                /\ DigitValue(a[i]) < DigitValue(b[i])
                /\ \A j \in 1..(i - 1) : a[j] = b[j]
      IsArrayIndex(k) ==
        /\ Len(k) > 0
        /\ \A i \in 1..Len(k) : Digit(k[i])
        /\ Len(k) = 1 \/ k[1] # "0"
        /\ Less(k, <<"4","2","9","4","9","6","7","2","9","5">>)
      before == Cardinality({ p \in 1..Len(obj) :
                                IsArrayIndex(obj[p].key) /\ Less(obj[p].key, key) })
      entry == [key |-> key, value |-> value]
  IN IF key \in KeySet(obj)
       THEN [k \in 1..Len(obj) |-> IF obj[k].key = key THEN entry ELSE obj[k]]
     ELSE IF IsArrayIndex(key)
       THEN SubSeq(obj, 1, before) \o <<entry>> \o SubSeq(obj, before + 1, Len(obj))
     ELSE Append(obj, entry)

\* obj[key] = value on an object that inherits from Object.prototype.  The
\* key "__proto__" is the accessor of Object.prototype: unless the object
\* has an own property of that name, the assignment calls the setter and
\* adds no property.
SetProp(obj, key, value) ==
  IF key = <<"_","_","p","r","o","t","o","_","_">> /\ key \notin KeySet(obj)
    THEN obj
    ELSE DefineProp(obj, key, value)

-----------------------------------------------------------------------------
(* String.prototype.replace with the pattern built from a key             *)

\* GetSubstitution: the replacement text with its $-patterns expanded.  The
\* pattern has no capture groups, so $1..$99 and $< stay as written.
RECURSIVE GetSubstitution(_, _, _, _, _)
GetSubstitution(replacement, i, matched, before, after) ==
  IF i > Len(replacement) THEN <<>>
  ELSE IF replacement[i] = "$" /\ i < Len(replacement)
    THEN LET n == replacement[i + 1] IN
         IF n = "$"
           THEN <<"$">> \o GetSubstitution(replacement, i + 2, matched, before, after)
         ELSE IF n = "&"
           THEN matched \o GetSubstitution(replacement, i + 2, matched, before, after)
         ELSE IF n = Backtick
           THEN before \o GetSubstitution(replacement, i + 2, matched, before, after)
         ELSE IF n = "'"
           THEN after \o GetSubstitution(replacement, i + 2, matched, before, after)
         ELSE <<"$">> \o GetSubstitution(replacement, i + 1, matched, before, after)
    ELSE <<replacement[i]>> \o GetSubstitution(replacement, i + 1, matched, before, after)

\* new RegExp(`{{${key}}}`, "g") for a key that is a word or holds "-".
\* Without the u flag a brace that opens no quantifier is a literal, so the
\* pattern is the text `{{key}}`, unless the key is a string of digits:
\* then `{key}` is a quantifier of the first brace, and the pattern is that
\* many "{" followed by one "}".  The compiled pattern is count times "{"
\* followed by the text rest.  A count above limit is kept as limit + 1: no
\* string of at most limit characters holds that many braces.
RegExpOf(key, limit) ==
  LET Digits == { "0","1","2","3","4","5","6","7","8","9" }
      DigitValue(c) == CHOOSE n \in 0..9 : ToString(n) = c
      RECURSIVE DecimalFrom(_, _)
      DecimalFrom(k, acc) ==
        IF k > Len(key) THEN acc
        ELSE LET n == acc * 10 + DigitValue(key[k])
             IN DecimalFrom(k + 1, IF n > limit THEN limit + 1 ELSE n)
  IN IF Len(key) > 0 /\ \A k \in 1..Len(key) : key[k] \in Digits
       THEN [ count |-> DecimalFrom(1, 0), rest |-> <<"}">> ]
       ELSE [ count |-> 1, rest |-> <<"{">> \o key \o <<"}", "}">> ]

\* s.replace(regexp, replacement) for a global regexp: the matches are
\* found left to right in s, without overlap, and each is replaced by the
\* expanded replacement text.
RECURSIVE ReplaceFrom(_, _, _, _)
ReplaceFrom(s, i, regexp, replacement) ==
  LET length == regexp.count + Len(regexp.rest)
      matches ==
        /\ i + length - 1 <= Len(s)
        /\ \A k \in 0..(regexp.count - 1) : s[i + k] = "{"
        /\ StartsAt(s, regexp.rest, i + regexp.count)
  IN IF i > Len(s) THEN <<>>
     ELSE IF matches
       THEN GetSubstitution(replacement, 1, Slice(s, i, i + length - 1),
                            Slice(s, 1, i - 1), Slice(s, i + length, Len(s)))
            \o ReplaceFrom(s, i + length, regexp, replacement)
       ELSE <<s[i]>> \o ReplaceFrom(s, i + 1, regexp, replacement)

ReplaceAll(s, regexp, replacement) == ReplaceFrom(s, 1, regexp, replacement)

-----------------------------------------------------------------------------
(* insertParamsIntoPrompt (agent.ts 293-304)                               *)

\* The loop over Object.entries(params), from entry k on.
RECURSIVE InsertFrom(_, _, _)
InsertFrom(res, entries, k) ==
  IF k > Len(entries) THEN res
  ELSE InsertFrom(ReplaceAll(res, RegExpOf(entries[k].key, Len(res)),
                             entries[k].value),
                  entries, k + 1)

insertParamsIntoPrompt(template, entries) == InsertFrom(template, entries, 1)

-----------------------------------------------------------------------------
(* Values                                                                  *)

\* A missing property reads as undefined; `??` also skips null.
UNDEF == "undefined"
NULL == "null"

\* lhs ?? rhs
Coalesce(lhs, rhs) == IF lhs = UNDEF \/ lhs = NULL THEN rhs ELSE lhs

\* A property that holds a string or an object is read as a record tagged
\* with the type of the value; these two are undefined and null there.
Undefined == [vt |-> "undefined"]
Null == [vt |-> "null"]

\* lhs ?? rhs on such properties.
CoalesceValue(lhs, rhs) ==
  IF lhs.vt = "undefined" \/ lhs.vt = "null" THEN rhs ELSE lhs

\* A value is truthy unless it is undefined, null or the empty string.
Truthy(v) == (v.vt = "string" /\ v.str # <<>>) \/ v.vt = "object"

\* The hyperparameter fields of an agent, in the order of agent.ts 185-193.
HyperFields ==
  << "model", "provider", "temperature", "maxTokens", "topP",
     "frequencyPenalty", "presencePenalty", "stopSequences", "tools" >>

\* A thrown Error and a returned value.
Throw(message) == [tag |-> "err", value |-> message]
Return(value) == [tag |-> "ok", value |-> value]

-----------------------------------------------------------------------------
(* validateEntityParams (agent.ts 261-284)                                 *)

\* End of the longest run of word characters that starts at position i.
RECURSIVE WordEnd(_, _)
WordEnd(s, i) ==
  IF i <= Len(s) /\ s[i] \in WordChars THEN WordEnd(s, i + 1) ELSE i - 1

\* prompt.matchAll(/\{\{(\w+)\}\}/g): the captured names, in match order.
\* \w+ is greedy and cannot give a character back, since "}" is not in \w.
RECURSIVE MatchAll(_, _)
MatchAll(s, i) ==
  IF i > Len(s) THEN <<>>
  ELSE LET e == WordEnd(s, i + 2) IN
       IF /\ StartsAt(s, <<"{", "{">>, i)
          /\ e >= i + 2
          /\ StartsAt(s, <<"}", "}">>, e + 1)
         THEN <<Slice(s, i + 2, e)>> \o MatchAll(s, e + 3)
         ELSE MatchAll(s, i + 1)

\* The names pushed to missingParams: those for which `name in params` is
\* false.
RECURSIVE MissingOf(_, _)
MissingOf(names, obj) ==
  IF Len(names) = 0 THEN <<>>
  ELSE (IF In(names[1], obj) THEN <<>> ELSE <<names[1]>>)
       \o MissingOf(Tail(names), obj)

MissingMessage(type, nodeId, uniqueMissing) ==
  <<"Missing parameter">>
  \o (IF Len(uniqueMissing) > 1 THEN <<"s">> ELSE <<>>)
  \o <<" in ", type, " \"">> \o nodeId \o <<"\": ">>
  \o Join(uniqueMissing, <<", ">>)

validateEntityParams(template, obj, nodeId, type) ==
  LET missingParams == MissingOf(MatchAll(template, 1), obj) IN
  IF Len(missingParams) > 0
    THEN Throw(MissingMessage(type, nodeId, Unique(missingParams)))
    ELSE Return(<<>>)

-----------------------------------------------------------------------------
(* evaluateEntity (agent.ts 210-235)                                       *)

\* The inner evaluate(node), with the `evaluated` map of the enclosing call
\* passed in and out.  work lists the ids for which validation and
\* substitution ran.
RECURSIVE evaluate(_, _, _)
RECURSIVE EvaluateChildren(_, _, _, _, _)
\* evaluate without the look-up in the `evaluated` map.
evaluateUnmemoized(node, evaluated, work) ==
  LET kids == EvaluateChildren(node.children, 1, node.params, evaluated, work) IN
  IF kids.tag = "err" THEN kids
  ELSE LET valid == validateEntityParams(node.prompt, kids.value, node.id, node.type) IN
       IF valid.tag = "err"
         THEN [tag |-> "err", value |-> valid.value,
               evaluated |-> kids.evaluated, work |-> kids.work]
         ELSE LET res == insertParamsIntoPrompt(node.prompt, kids.value) IN
              [tag |-> "ok", value |-> res,
               evaluated |-> MapSet(kids.evaluated, node.id, res),
               work |-> Append(kids.work, node.id)]

evaluate(node, evaluated, work) ==
  IF node.id \in KeySet(evaluated)
    THEN [tag |-> "ok", value |-> Get(evaluated, node.id),
          evaluated |-> evaluated, work |-> work]
    ELSE LET kids == EvaluateChildren(node.children, 1, node.params, evaluated, work) IN
         IF kids.tag = "err" THEN kids
         ELSE LET valid == validateEntityParams(node.prompt, kids.value, node.id, node.type) IN
              IF valid.tag = "err"
                THEN [tag |-> "err", value |-> valid.value,
                      evaluated |-> kids.evaluated, work |-> kids.work]
                ELSE LET res == insertParamsIntoPrompt(node.prompt, kids.value) IN
                     [tag |-> "ok", value |-> res,
                      evaluated |-> MapSet(kids.evaluated, node.id, res),
                      work |-> Append(kids.work, node.id)]

\* for (const child of node.children) params[child.id] = evaluate(child)
EvaluateChildren(children, k, obj, evaluated, work) ==
  IF k > Len(children)
    THEN [tag |-> "ok", value |-> obj, evaluated |-> evaluated, work |-> work]
    ELSE LET r == evaluate(children[k], evaluated, work) IN
         IF r.tag = "err" THEN r
         ELSE EvaluateChildren(children, k + 1,
                               SetProp(obj, children[k].id, r.value),
                               r.evaluated, r.work)

\* A fresh `evaluated` map per call.
evaluateEntity(node) == evaluate(node, <<>>, <<>>)

\* The string returned or the Error thrown by evaluateEntity(node).
Outcome(r) == [tag |-> r.tag, value |-> r.value]

-----------------------------------------------------------------------------
(* Type guards (agent.ts 25-70)                                            *)

isAgentOptions(v) ==
  v.hasDefaultPrompt /\ v.model # UNDEF /\ v.provider # UNDEF

isToolOptions(v) ==
  /\ v.hasDefaultPrompt /\ v.model = UNDEF /\ v.provider = UNDEF
  /\ v.typeTag = "tool"

isTextPromptOptions(v) ==
  /\ v.hasDefaultPrompt /\ v.model = UNDEF /\ v.provider = UNDEF
  /\ ~(v.typeTag = "tool")

-----------------------------------------------------------------------------
(* getEntityNode (agent.ts 137-197)                                        *)

SelfReferenceMessage(type, id) ==
  <<"Self-referencing ", type, " detected: ", type, " \"">> \o id
  \o <<"\" cannot reference itself as a parameter">>

\* The message without the id that repeats.
CircularMessageAncestorsOnly(type, ancestorIds, id) ==
  <<"Circular ", type, " reference detected: ">>
  \o Join(ancestorIds, <<" -> ">>)

\* ancestorIds is a Set: its elements in insertion order.
CircularMessage(type, ancestorIds, id) ==
  <<"Circular ", type, " reference detected: ">>
  \o Join(Append(ancestorIds, id), <<" -> ">>)

\* The node literal of agent.ts 173-194.
MakeNode(id, type, options, simpleParams, children) ==
  LET hyper(f) == IF type = "agent" /\ isAgentOptions(options)
                    THEN options[f] ELSE UNDEF
  IN [ id |-> id, type |-> type,
       majorVersion |-> options.majorVersion, name |-> options.name,
       params |-> simpleParams, prompt |-> options.defaultPrompt,
       children |-> children,
       model |-> hyper("model"), provider |-> hyper("provider"),
       temperature |-> hyper("temperature"), maxTokens |-> hyper("maxTokens"),
       topP |-> hyper("topP"),
       frequencyPenalty |-> hyper("frequencyPenalty"),
       presencePenalty |-> hyper("presencePenalty"),
       stopSequences |-> hyper("stopSequences"), tools |-> hyper("tools") ]

RECURSIVE getEntityNode(_, _, _, _)
RECURSIVE BuildParams(_, _, _, _, _)
\* getEntityNode with the two checks in the other order.
getEntityNodeCircularFirst(id, type, options, ancestorIds) ==
  IF \E k \in 1..Len(ancestorIds) : ancestorIds[k] = id
    THEN Throw(CircularMessage(type, ancestorIds, id))
  ELSE IF options.hasParams /\ In(id, options.params)
    THEN Throw(SelfReferenceMessage(type, id))
  ELSE LET r == BuildParams(IF options.hasParams THEN options.params ELSE <<>>,
                            1, Append(ancestorIds, id), <<>>, <<>>) IN
       IF r.tag = "err" THEN r
       ELSE Return(MakeNode(id, type, options, r.value.simpleParams, r.value.children))

\* getEntityNode without the check of ancestorIds.
getEntityNodeNoCircularCheck(id, type, options, ancestorIds) ==
  IF options.hasParams /\ In(id, options.params)
    THEN Throw(SelfReferenceMessage(type, id))
  ELSE LET r == BuildParams(IF options.hasParams THEN options.params ELSE <<>>,
                            1, Append(ancestorIds, id), <<>>, <<>>) IN
       IF r.tag = "err" THEN r
       ELSE Return(MakeNode(id, type, options, r.value.simpleParams, r.value.children))

\* getEntityNode without the check of its own params.
getEntityNodeNoSelfCheck(id, type, options, ancestorIds) ==
  IF \E k \in 1..Len(ancestorIds) : ancestorIds[k] = id
    THEN Throw(CircularMessage(type, ancestorIds, id))
  ELSE LET r == BuildParams(IF options.hasParams THEN options.params ELSE <<>>,
                            1, Append(ancestorIds, id), <<>>, <<>>) IN
       IF r.tag = "err" THEN r
       ELSE Return(MakeNode(id, type, options, r.value.simpleParams, r.value.children))

getEntityNode(id, type, options, ancestorIds) ==
  IF options.hasParams /\ In(id, options.params)
    THEN Throw(SelfReferenceMessage(type, id))
  ELSE IF \E k \in 1..Len(ancestorIds) : ancestorIds[k] = id
    THEN Throw(CircularMessage(type, ancestorIds, id))
  ELSE LET r == BuildParams(IF options.hasParams THEN options.params ELSE <<>>,
                            1, Append(ancestorIds, id), <<>>, <<>>) IN
       IF r.tag = "err" THEN r
       ELSE Return(MakeNode(id, type, options, r.value.simpleParams, r.value.children))

\* The loop over Object.entries(options.params), from entry k on.
BuildParams(entries, k, newAncestorIds, simpleParams, children) ==
  IF k > Len(entries)
    THEN Return([simpleParams |-> simpleParams, children |-> children])
    ELSE LET paramId == entries[k].key
             value == entries[k].value
             type == IF isAgentOptions(value.obj) THEN "agent"
                     ELSE IF isToolOptions(value.obj) THEN "tool"
                     ELSE IF isTextPromptOptions(value.obj) THEN "prompt"
                     ELSE "none"
         IN IF value.vt = "string"
              THEN BuildParams(entries, k + 1, newAncestorIds,
                               SetProp(simpleParams, paramId, value.str), children)
            ELSE IF type = "none"
              THEN BuildParams(entries, k + 1, newAncestorIds, simpleParams, children)
            ELSE LET child == getEntityNode(paramId, type, value.obj, newAncestorIds) IN
                 IF child.tag = "err" THEN child
                 ELSE BuildParams(entries, k + 1, newAncestorIds, simpleParams,
                                  Append(children, child.value))

getAgentNode(id, options) == getEntityNode(id, "agent", options, <<>>)
getToolNode(id, options) == getEntityNode(id, "tool", options, <<>>)
getTextPromptNode(id, options) == getEntityNode(id, "prompt", options, <<>>)

-----------------------------------------------------------------------------
(* Flattening and overlay (agent.ts 313-387, 441-464)                      *)

\* The nodes in the order traverseEntityNode calls the callback on them:
\* a node, then the subtrees of its children in order.
RECURSIVE traverseEntityNode(_)
RECURSIVE TraverseChildren(_, _)
traverseEntityNode(node) == <<node>> \o TraverseChildren(node.children, 1)
TraverseChildren(children, k) ==
  IF k > Len(children) THEN <<>>
  ELSE traverseEntityNode(children[k]) \o TraverseChildren(children, k + 1)

\* formatNode of formatEntityRequest.  extra is no property of the item
\* until agent() sets it.
formatNode(node) ==
  [ id |-> node.id, type |-> node.type, name |-> node.name,
    majorVersion |-> node.majorVersion, prompt |-> node.prompt,
    paramKeys |-> Keys(node.params)
                  \o [k \in 1..Len(node.children) |-> node.children[k].id],
    childrenIds |-> [k \in 1..Len(node.children) |-> node.children[k].id],
    childrenTypes |-> [k \in 1..Len(node.children) |-> node.children[k].type],
    model |-> node.model, provider |-> node.provider,
    temperature |-> node.temperature, maxTokens |-> node.maxTokens,
    topP |-> node.topP, frequencyPenalty |-> node.frequencyPenalty,
    presencePenalty |-> node.presencePenalty,
    stopSequences |-> node.stopSequences, tools |-> node.tools,
    extra |-> Undefined ]

\* map[currentNode.id] = formatNode(currentNode), for the nodes from k on.
RECURSIVE FormatMap(_, _, _)
FormatMap(nodes, k, map) ==
  IF k > Len(nodes) THEN map
  ELSE FormatMap(nodes, k + 1, SetProp(map, nodes[k].id, formatNode(nodes[k])))

formatEntityRequest(node) ==
  [ entities |-> [ rootId |-> node.id, rootType |-> node.type,
                   map |-> FormatMap(traverseEntityNode(node), 1, <<>>) ] ]

\* A response item none of whose properties is set: what the optional
\* chaining on a missing item reads.
NoItem ==
  [ prompt |-> Undefined, model |-> UNDEF, provider |-> UNDEF,
    temperature |-> UNDEF, maxTokens |-> UNDEF, topP |-> UNDEF,
    frequencyPenalty |-> UNDEF, presencePenalty |-> UNDEF,
    stopSequences |-> UNDEF, tools |-> UNDEF, extra |-> Undefined ]

\* entityMap[id] of a parsed JSON object.
Lookup(entityMap, id) ==
  IF id \in KeySet(entityMap) THEN Get(entityMap, id) ELSE NoItem

\* The callback agent() passes to updateAgentNodes (client.ts 120-134).
agentCallback(agentNode, entityMap) ==
  LET responseItem == Lookup(entityMap, agentNode.id) IN
  [ agentNode EXCEPT
      !.prompt = IF Truthy(responseItem.prompt)
                   THEN responseItem.prompt.str ELSE agentNode.prompt,
      !.model = Coalesce(responseItem.model, agentNode.model),
      !.temperature = Coalesce(responseItem.temperature, agentNode.temperature),
      !.maxTokens = Coalesce(responseItem.maxTokens, agentNode.maxTokens),
      !.topP = Coalesce(responseItem.topP, agentNode.topP),
      !.frequencyPenalty =
         Coalesce(responseItem.frequencyPenalty, agentNode.frequencyPenalty),
      !.presencePenalty =
         Coalesce(responseItem.presencePenalty, agentNode.presencePenalty),
      !.stopSequences =
         Coalesce(responseItem.stopSequences, agentNode.stopSequences) ]

\* The callback of tool() and prompt() taking every prompt the server
\* returns, the empty one too.
entityCallbackAnyPrompt(entityNode, entityMap) ==
  LET responseItem == Lookup(entityMap, entityNode.id) IN
  [ entityNode EXCEPT
      !.prompt = IF responseItem.prompt.vt = "string"
                   THEN responseItem.prompt.str ELSE entityNode.prompt ]

\* The callback of tool() and prompt() without the fallback to the local
\* prompt.
entityCallbackServerOnly(entityNode, entityMap) ==
  LET responseItem == Lookup(entityMap, entityNode.id) IN
  [ entityNode EXCEPT
      !.prompt = IF responseItem.prompt.vt = "string"
                   THEN responseItem.prompt.str ELSE <<>> ]

\* The callback tool() and prompt() pass to updateEntityNodes
\* (client.ts 188-194, 220-226).
entityCallback(entityNode, entityMap) ==
  LET responseItem == Lookup(entityMap, entityNode.id) IN
  [ entityNode EXCEPT
      !.prompt = IF Truthy(responseItem.prompt)
                   THEN responseItem.prompt.str ELSE entityNode.prompt ]

\* updateNode that does not descend: the callback gets the node without
\* its children.
updateNodeChildless(node, entityMap, method) ==
  LET updatedNode == [node EXCEPT !.children = <<>>]
  IN IF method = "agent" THEN agentCallback(updatedNode, entityMap)
     ELSE entityCallback(updatedNode, entityMap)

\* updateNode of updateEntityNodes; the callback is the one of the method.
RECURSIVE updateNode(_, _, _)
updateNode(node, entityMap, method) ==
  LET updatedChildren ==
        [ k \in 1..Len(node.children) |->
            updateNode(node.children[k], entityMap, method) ]
      updatedNode == [node EXCEPT !.children = updatedChildren]
  IN IF method = "agent" THEN agentCallback(updatedNode, entityMap)
     ELSE entityCallback(updatedNode, entityMap)

updateEntityNodes(root, entityMap, method) == updateNode(root, entityMap, method)

updateAgentNodes(root, entityMap) == updateEntityNodes(root, entityMap, "agent")

-----------------------------------------------------------------------------
(* Inputs                                                                  *)

\* Objects with at most n entries, keys taken from keys without repetition,
\* in every insertion order.
RECURSIVE ObjectsOver(_, _, _)
ObjectsOver(keys, values, n) ==
  IF n = 0 THEN { <<>> }
  ELSE LET shorter == ObjectsOver(keys, values, n - 1) IN
       shorter \cup
       UNION { { Append(o, [key |-> k, value |-> v]) :
                   k \in keys \ KeySet(o), v \in values } : o \in shorter }

\* Largest number of entries of a params object handed to
\* insertParamsIntoPrompt.
MaxSubstParams == 2

\* An options object with a defaultPrompt and nothing else set.  hasParams
\* tells whether the params property is present; typeTag is the _type
\* property.
Options(template, hasParams, entries) ==
  [ hasDefaultPrompt |-> TRUE, defaultPrompt |-> template,
    hasParams |-> hasParams, params |-> entries,
    typeTag |-> UNDEF, majorVersion |-> UNDEF, name |-> UNDEF,
    model |-> UNDEF, provider |-> UNDEF, temperature |-> UNDEF,
    maxTokens |-> UNDEF, topP |-> UNDEF, frequencyPenalty |-> UNDEF,
    presencePenalty |-> UNDEF, stopSequences |-> UNDEF, tools |-> UNDEF,
    extra |-> Undefined ]

\* The same options as an agent's (model and provider set) and as a tool's.
AsAgent(o) == [o EXCEPT !.model = "gpt-4o", !.provider = "openai"]
AsTool(o) == [o EXCEPT !.typeTag = "tool"]

StringValue(str) == [vt |-> "string", str |-> str]
ObjectValue(obj) == [vt |-> "object", obj |-> obj]

\* Number of entries of a params object, nested ones included.
RECURSIVE Size(_)
RECURSIVE SizeFrom(_, _)
Size(entries) == SizeFrom(entries, 1)
SizeFrom(entries, k) ==
  IF k > Len(entries) THEN 0
  ELSE 1 + (IF entries[k].value.vt = "object"
              THEN Size(entries[k].value.obj.params) ELSE 0)
         + SizeFrom(entries, k + 1)

\* The template that mentions every key of entries once: "{{k1}} {{k2}}".
Mentioning(entries) ==
  Join([k \in 1..Len(entries) |-> Placeholder(entries[k].key)], <<" ">>)

\* The nested definitions over a params object.  With no templates given:
\* as a text prompt and as an agent, with the template that mentions every
\* key.  Otherwise: as a text prompt with each of the templates.
Definitions(entries, templates) ==
  IF templates = {}
    THEN LET o == Options(Mentioning(entries), entries # <<>>, entries)
         IN { o, AsAgent(o) }
    ELSE { Options(t, entries # <<>>, entries) : t \in templates }

RECURSIVE ParamsObjects(_, _, _, _, _)
ParamsObjects(n, d, keys, literals, templates) ==
  IF n = 0 \/ d = 0 THEN { <<>> }
  ELSE { <<>> } \cup
       UNION { UNION {
         { <<[key |-> k, value |-> v]>> \o rest :
             k \in keys \ KeySet(rest),
             v \in { StringValue(l) : l \in literals } \cup
                   { ObjectValue(o) : o \in Definitions(sub, templates) } } :
           sub \in { x \in ParamsObjects(m, d - 1, keys, literals, templates) :
                       Size(x) = m },
           rest \in ParamsObjects(n - 1 - m, d, keys, literals, templates) } :
         m \in 0..(n - 1) }

\* No call in progress.
NoCall == [method |-> "none"]
NoValue == [tag |-> "none"]

IdleCall ==
  /\ call = NoCall /\ built = NoValue /\ request = NoValue /\ httpCount = 0
  /\ steps = <<>> /\ response = NoValue /\ updated = NoValue
  /\ result = NoValue /\ evaluation = NoValue

-----------------------------------------------------------------------------
(* Substitution on its own: insertParamsIntoPrompt applied to an input     *)

InitSubst ==
  LET \* Keys of params: two words, and a word of digits that is no array index.
      SubstKeys == { <<"a">>, <<"b">>, <<"0","1">> }
      \* Replacement values: plain text, text that looks like a placeholder, and
      \* text with the $-patterns of String.prototype.replace.
      SubstValues ==
        { <<"X">>, <<>>, <<"{","{","b","}","}">>, <<"{","{","a","}","}">>,
          <<"$","&">>, <<"$","$">>, <<"$","'">>, <<"$",Backtick>>, <<"$","1">>,
          <<"$",","," ","*">> }
      SubstTemplates ==
        { <<"{","{","a","}","}">>,
          <<"{","{","a","}","}"," ","{","{","b","}","}">>,
          <<"{","{","b","}","}","-","{","{","a","}","}","-","{","{","b","}","}">>,
          <<"H","i"," ","{","{","a","}","}","!">>,
          <<"{","{","{","a","}","}","}">>,
          <<"{","{","a","b","}","}">>,
          <<"p","l","a","i","n">>,
          <<"{","{","0","1","}","}">>,
          <<"n","o"," ","{","}">>,
          <<>> }
  IN
    /\ pc = "subst"
    /\ prompt \in SubstTemplates
    /\ params \in ObjectsOver(SubstKeys, SubstValues, MaxSubstParams)
    /\ substituted = <<>>
    /\ IdleCall
    /\ processor = NoValue

Insert ==
  /\ pc = "subst"
  /\ substituted' = insertParamsIntoPrompt(prompt, params)
  /\ pc' = "substDone"
  /\ UNCHANGED processor
  /\ UNCHANGED <<call, built, request, httpCount, steps, response, updated,
                 result, evaluation, prompt, params>>

NextSubst == Insert

SpecSubst == InitSubst /\ [][NextSubst]_vars

-----------------------------------------------------------------------------
(* Construction, evaluation, flattening and overlay on their own:          *)
(* getAgentNode, getToolNode or getTextPromptNode applied to an input,     *)
(* then evaluateEntity, formatEntityRequest or the overlay applied to the  *)
(* tree                                                                    *)

\* Bounds of the inputs that vary the shape of the params: entries in all,
\* and nesting depth.
MaxEntries == 3
MaxDepth == 3

\* Bounds of the inputs that vary the templates.
MaxTemplateEntries == 2
MaxTemplateDepth == 2

\* The ids are interchangeable, so one root id stands for all.
ShapeRootId == <<"a">>

TemplateKeys == { <<"a">>, <<"b">> }
TemplateLiterals == { <<"X">>, <<"$","&">> }
TemplateRootId == <<"r">>
Templates ==
  { <<"{","{","a","}","}">>,
    <<"{","{","b","}","}","{","{","a","}","}","{","{","b","}","}">>,
    <<"{","{","v","a","l","u","e","O","f","}","}","{","{","a","}","}">>,
    <<"$","&">> }

Methods == { "agent", "tool", "prompt" }

\* The options a caller of the given method passes.
RootOptions(method, o) == IF method = "agent" THEN AsAgent(o) ELSE o

\* The ids are any strings (agent.ts 86-131); "__proto__" is the one that
\* names the accessor of Object.prototype.  It is given as the id of the
\* root, and as the key of a nested definition or of a literal, an own
\* property of a params object that JSON.parse or a computed key made.
ShapeCalls ==
  LET ShapeIds == { <<"a">>, <<"b">>, <<"c">> }
      ShapeLiterals == { <<"x">> }
      proto == <<"_","_","p","r","o","t","o","_","_">>
      nested == ObjectValue(Options(<<"y">>, FALSE, <<>>))
  IN
    { [ method |-> m, id |-> ShapeRootId,
        options |-> RootOptions(m, Options(Mentioning(ps), TRUE, ps)) ] :
      m \in Methods,
      ps \in ParamsObjects(MaxEntries, MaxDepth, ShapeIds, ShapeLiterals, {}) }
    \cup
    { [ method |-> m, id |-> id,
        options |-> RootOptions(m, Options(Mentioning(ps), TRUE, ps)) ] :
      m \in Methods,
      id \in { ShapeRootId, proto },
      ps \in { << [key |-> <<"b">>, value |-> nested] >>,
               << [key |-> proto, value |-> nested] >>,
               << [key |-> proto, value |-> StringValue(<<"x">>)] >> } }
    \cup
    { [ method |-> m, id |-> proto,
        options |-> RootOptions(m, Options(<<"x">>, FALSE, <<>>)) ] :
      m \in Methods }

TemplateCalls ==
  { [ method |-> "prompt", id |-> TemplateRootId,
      options |-> Options(t, TRUE, ps) ] :
    t \in Templates,
    ps \in ParamsObjects(MaxTemplateEntries, MaxTemplateDepth, TemplateKeys,
                         TemplateLiterals, Templates) }

\* Values of params that are objects but none of the three kinds of nested
\* definition: a defaultPrompt with a model and no provider, and an object
\* with no defaultPrompt.
UnrecognisedValues ==
  { ObjectValue([Options(<<"y">>, FALSE, <<>>) EXCEPT !.model = "gpt-4o"]),
    ObjectValue([Options(<<>>, FALSE, <<>>) EXCEPT !.hasDefaultPrompt = FALSE]) }

\* Calls whose params hold such a value, alone or between a literal and a
\* nested prompt.
UnrecognisedCalls ==
  { [ method |-> m, id |-> ShapeRootId,
      options |-> RootOptions(m, Options(Mentioning(ps), TRUE, ps)) ] :
    m \in Methods,
    ps \in { << [key |-> <<"b">>, value |-> u] >> : u \in UnrecognisedValues }
          \cup { << [key |-> <<"x">>, value |-> StringValue(<<"x">>)],
                    [key |-> <<"b">>, value |-> u],
                    [key |-> <<"c">>,
                     value |-> ObjectValue(Options(<<"z">>, FALSE, <<>>))] >> :
                  u \in UnrecognisedValues } }

\* Calls whose params are literals only, under word, digit and non-word
\* keys: Params is Record<string, ...> (types.ts 267), so any string is a
\* key.  The templates are plain text, with and without braces, text in
\* double braces that is not a word, and a placeholder of digits.
LiteralCalls ==
  LET PunctuatedKeys == { <<"a","-","b">> }
      DigitKeys == { <<"0","1">> }
      LiteralTemplates ==
        { <<"p","l","a","i","n">>, <<"{","{","a","-","b","}","}">>,
          <<"{","{","a","}","-","b","}","}">>, <<"n","o"," ","{","}">>,
          <<"{","{","0","1","}","}">> }
  IN { [ method |-> m, id |-> TemplateRootId,
         options |-> RootOptions(m, Options(t, TRUE, ps)) ] :
       m \in Methods, t \in LiteralTemplates,
       ps \in ObjectsOver(PunctuatedKeys \cup DigitKeys \cup { <<"a">> },
                          { StringValue(l) : l \in TemplateLiterals },
                          MaxTemplateEntries) }

IdleSubst == prompt = <<>> /\ params = <<>> /\ substituted = <<>>

\* client.ts 102, 178, 210: the node constructor of each method.
BuildNode(c) ==
  IF c.method = "agent" THEN getAgentNode(c.id, c.options)
  ELSE IF c.method = "tool" THEN getToolNode(c.id, c.options)
  ELSE getTextPromptNode(c.id, c.options)

InitTree ==
  /\ pc = "tree"
  /\ call \in ShapeCalls \cup TemplateCalls \cup UnrecognisedCalls
              \cup LiteralCalls
  /\ built = NoValue /\ evaluation = NoValue
  /\ request = NoValue /\ httpCount = 0 /\ steps = <<>>
  /\ response = NoValue /\ updated = NoValue /\ result = NoValue
  /\ IdleSubst
  /\ processor = NoValue

Construct ==
  /\ pc = "tree"
  /\ built' = BuildNode(call)
  /\ pc' = "constructed"
  /\ UNCHANGED processor
  /\ UNCHANGED <<call, request, httpCount, steps, response, updated, result,
                 evaluation, prompt, params, substituted>>

Evaluate ==
  /\ pc = "constructed"
  /\ built.tag = "ok"
  /\ evaluation' = evaluateEntity(built.value)
  /\ pc' = "evaluated"
  /\ UNCHANGED processor
  /\ UNCHANGED <<call, built, request, httpCount, steps, response, updated,
                 result, prompt, params, substituted>>

\* formatEntityRequest applied to the built tree.
Flatten ==
  /\ pc = "constructed"
  /\ built.tag = "ok"
  /\ request' = Return(formatEntityRequest(built.value))
  /\ pc' = "flattened"
  /\ UNCHANGED processor
  /\ UNCHANGED <<call, built, httpCount, steps, response, updated, result,
                 evaluation, prompt, params, substituted>>

\* The item a server with nothing to change returns for a node: the node's
\* own template, and null for every hyperparameter.
EchoItem(node) ==
  [ NoItem EXCEPT !.prompt = StringValue(node.prompt),
      !.model = NULL, !.provider = NULL, !.temperature = NULL,
      !.maxTokens = NULL, !.topP = NULL, !.frequencyPenalty = NULL,
      !.presencePenalty = NULL, !.stopSequences = NULL, !.tools = NULL ]

RECURSIVE EchoMapFrom(_, _, _)
EchoMapFrom(nodes, k, map) ==
  IF k > Len(nodes) THEN map
  ELSE EchoMapFrom(nodes, k + 1, DefineProp(map, nodes[k].id, EchoItem(nodes[k])))

\* The responses that change nothing: the empty map, and the map with such
\* an item for every id of the tree.
UnchangedMaps(node) == { <<>>, EchoMapFrom(traverseEntityNode(node), 1, <<>>) }

\* The overlay of the built tree with such a response, and the evaluation
\* of the overlaid tree (client.ts 118-142, 186-198, 218-230).
Overlay ==
  /\ pc = "constructed"
  /\ built.tag = "ok"
  /\ \E entityMap \in UnchangedMaps(built.value) :
       /\ response' = [ kind |-> "ok",
                        body |-> [hasEntities |-> TRUE, entities |-> entityMap] ]
       /\ updated' = Return(IF call.method = "agent"
                              THEN updateAgentNodes(built.value, entityMap)
                              ELSE updateEntityNodes(built.value, entityMap,
                                                     call.method))
       /\ evaluation' = evaluateEntity(updated'.value)
  /\ pc' = "overlaid"
  /\ UNCHANGED processor
  /\ UNCHANGED <<call, built, request, httpCount, steps, result, prompt,
                 params, substituted>>

NextTree == Construct \/ Evaluate \/ Flatten \/ Overlay

SpecTree == InitTree /\ [][NextTree]_vars

-----------------------------------------------------------------------------
(* The client: agent(), tool() and prompt() (client.ts 98-239)             *)

\* The array literal [] that the result defaults stopSequences and tools to.
EmptyList == "[]"
EmptyObject == ObjectValue(<<>>)

\* The names of the properties of the results, per character.
PropertyNames ==
  [ systemPrompt |-> <<"s","y","s","t","e","m","P","r","o","m","p","t">>,
    model |-> <<"m","o","d","e","l">>,
    provider |-> <<"p","r","o","v","i","d","e","r">>,
    temperature |-> <<"t","e","m","p","e","r","a","t","u","r","e">>,
    maxTokens |-> <<"m","a","x","T","o","k","e","n","s">>,
    topP |-> <<"t","o","p","P">>,
    frequencyPenalty |-> <<"f","r","e","q","u","e","n","c","y","P","e","n","a","l","t","y">>,
    presencePenalty |-> <<"p","r","e","s","e","n","c","e","P","e","n","a","l","t","y">>,
    stopSequences |-> <<"s","t","o","p","S","e","q","u","e","n","c","e","s">>,
    tools |-> <<"t","o","o","l","s">>,
    prompt |-> <<"p","r","o","m","p","t">>,
    text |-> <<"t","e","x","t">> ]

\* A property of a result object.
Property(key, value) == [key |-> PropertyNames[key], value |-> value]

\* { ...obj, ...extra }: the properties of extra from k on, set on obj.
RECURSIVE SpreadFrom(_, _, _)
SpreadFrom(obj, entries, k) ==
  IF k > Len(entries) THEN obj
  ELSE SpreadFrom(DefineProp(obj, entries[k].key, entries[k].value), entries, k + 1)

\* The object agent() returns from its try block (client.ts 141-155).
AgentResult(systemPrompt, rootResponse, options, extraFromResponse) ==
  SpreadFrom(
    << Property("systemPrompt", systemPrompt),
       Property("model", Coalesce(rootResponse.model, options.model)),
       Property("provider", Coalesce(rootResponse.provider, options.provider)),
       Property("temperature",
         Coalesce(Coalesce(rootResponse.temperature, options.temperature), NULL)),
       Property("maxTokens",
         Coalesce(Coalesce(rootResponse.maxTokens, options.maxTokens), NULL)),
       Property("topP", Coalesce(Coalesce(rootResponse.topP, options.topP), NULL)),
       Property("frequencyPenalty",
         Coalesce(Coalesce(rootResponse.frequencyPenalty,
                           options.frequencyPenalty), NULL)),
       Property("presencePenalty",
         Coalesce(Coalesce(rootResponse.presencePenalty,
                           options.presencePenalty), NULL)),
       Property("stopSequences",
         Coalesce(Coalesce(rootResponse.stopSequences, options.stopSequences),
                  EmptyList)),
       Property("tools",
         Coalesce(Coalesce(rootResponse.tools, options.tools), EmptyList)) >>,
    extraFromResponse.obj, 1)

\* The object agent() returns from its catch block (client.ts 159-172).
AgentFallback(systemPrompt, options) ==
  LET extraData == CoalesceValue(options.extra, EmptyObject) IN
  SpreadFrom(
    << Property("systemPrompt", systemPrompt),
       Property("model", options.model),
       Property("provider", options.provider),
       Property("temperature", Coalesce(options.temperature, NULL)),
       Property("maxTokens", Coalesce(options.maxTokens, NULL)),
       Property("topP", Coalesce(options.topP, NULL)),
       Property("frequencyPenalty", Coalesce(options.frequencyPenalty, NULL)),
       Property("presencePenalty", Coalesce(options.presencePenalty, NULL)),
       Property("stopSequences", Coalesce(options.stopSequences, EmptyList)),
       Property("tools", Coalesce(options.tools, EmptyList)) >>,
    extraData.obj, 1)

\* The body of the request: formatEntityRequest(node), and for agent() the
\* caller's extra on the root's item (client.ts 104-111).
RequestOf(c, node) ==
  LET formattedRequest == formatEntityRequest(node) IN
  IF c.method = "agent" /\ Truthy(c.options.extra)
     /\ c.id \in KeySet(formattedRequest.entities.map)
    THEN [ formattedRequest EXCEPT
             !.entities.map =
                SetProp(@, c.id, [Get(@, c.id) EXCEPT !.extra = c.options.extra]) ]
    ELSE formattedRequest

\* The object each method returns from its try block, given the text the
\* overlaid tree evaluated to.
ResultOf(c, text, entityMap) ==
  IF c.method = "agent"
    THEN LET rootResponse == Lookup(entityMap, c.id) IN
         AgentResult(text, rootResponse, c.options,
                     CoalesceValue(CoalesceValue(rootResponse.extra, c.options.extra),
                                   EmptyObject))
  ELSE IF c.method = "tool" THEN << Property("prompt", text) >>
  ELSE << Property("text", text) >>

\* The rest of the try block once makeRequest has resolved with a body
\* (client.ts 118-155, 186-199, 218-231): the overlaid tree, what it
\* evaluated to, and the object returned or the error thrown.  A body
\* without entities makes the first entityMap[...] throw a TypeError.
Try(c, node, body) ==
  IF ~body.hasEntities
    THEN [ updated |-> NoValue, evaluation |-> NoValue,
           outcome |-> Throw(<<"TypeError">>), steps |-> <<"overlay">> ]
    ELSE LET entityMap == body.entities
             updatedNode == IF c.method = "agent"
                              THEN updateAgentNodes(node, entityMap)
                              ELSE updateEntityNodes(node, entityMap, c.method)
             text == evaluateEntity(updatedNode)
         IN [ updated |-> Return(updatedNode), evaluation |-> Outcome(text),
              outcome |-> IF text.tag = "err" THEN Throw(text.value)
                          ELSE Return(ResultOf(c, text.value, entityMap)),
              steps |-> <<"overlay", "evaluate">> ]

\* How the promise of the call settles.
Resolved(value) == [state |-> "resolved", value |-> value]
Rejected(error) == [state |-> "rejected", error |-> error]

\* The catch block (client.ts 156-173, 200-206, 232-238): the local tree is
\* evaluated, and an error of that evaluation leaves the call.
Catch(c, node) ==
  LET text == evaluateEntity(node) IN
  IF text.tag = "err" THEN Rejected(text.value)
  ELSE IF c.method = "agent" THEN Resolved(AgentFallback(text.value, c.options))
  ELSE IF c.method = "tool" THEN Resolved(<< Property("prompt", text.value) >>)
  ELSE Resolved(<< Property("text", text.value) >>)

\* The inputs: the id of the call, and the options of six shapes, which
\* have a literal param, a nested prompt, a placeholder with no param, a
\* literal with a nested tool and a nested prompt, the id of the call among
\* their params, and the id of the call among the params of a nested
\* prompt.
ClientRootId == <<"r">>
ChildId == <<"b">>

ClientOptions ==
  { Options(<<"H", "i", " ">> \o Placeholder(<<"a">>), TRUE,
            << [key |-> <<"a">>, value |-> StringValue(<<"X">>)] >>),
    Options(Placeholder(ChildId), TRUE,
            << [key |-> ChildId,
                value |-> ObjectValue(Options(<<"B">>, FALSE, <<>>))] >>),
    Options(Placeholder(<<"z">>), FALSE, <<>>),
    Options(Placeholder(<<"a">>) \o Placeholder(ChildId) \o Placeholder(<<"c">>),
            TRUE,
            << [key |-> <<"a">>, value |-> StringValue(<<"X">>)],
               [key |-> ChildId,
                value |-> ObjectValue(AsTool(Options(<<"B">>, FALSE, <<>>)))],
               [key |-> <<"c">>,
                value |-> ObjectValue(Options(<<"C">>, FALSE, <<>>))] >>),
    Options(<<"x">>, TRUE,
            << [key |-> ClientRootId, value |-> StringValue(<<"x">>)] >>),
    Options(<<"x">>, TRUE,
            << [key |-> ChildId,
                value |-> ObjectValue(
                  Options(<<"y">>, TRUE,
                          << [key |-> ClientRootId,
                              value |-> ObjectValue(Options(<<"z">>, FALSE, <<>>))] >>))] >>) }

\* The hyperparameters a caller of agent() sets: none, or some.
Tuned(o) ==
  [ o EXCEPT !.temperature = "0.7", !.maxTokens = "1000",
             !.stopSequences = "[END]", !.tools = "[search]" ]

\* The extra a caller of agent() passes: none, keys of its own, one of
\* them an array index, and a key that is also the name of a field of the
\* result.
ClientExtras ==
  { Undefined,
    ObjectValue(<< [key |-> <<"1","0">>, value |-> "x"],
                   [key |-> <<"c","u","s","t","o","m","F","i","e","l","d">>, value |-> "v"] >>),
    ObjectValue(<< [key |-> PropertyNames.temperature, value |-> "9"] >>) }

ClientCalls ==
  { [ method |-> "agent", id |-> ClientRootId,
      options |-> [ h EXCEPT !.extra = e ] ] :
    h \in { AsAgent(o) : o \in ClientOptions }
          \cup { Tuned(AsAgent(o)) : o \in ClientOptions },
    e \in ClientExtras }
  \cup { [ method |-> "tool", id |-> ClientRootId, options |-> AsTool(o) ] :
         o \in ClientOptions }
  \cup { [ method |-> "prompt", id |-> ClientRootId, options |-> o ] :
         o \in ClientOptions }

ServerItems ==
  LET \* What the server answers for one id: a prompt that is new, empty, null,
      \* or has a placeholder the caller has no param for, or uses the caller's
      \* param; hyperparameters null, set, or one set and the others absent; an
      \* extra or none.
      ServerPrompts ==
        { StringValue(<<"S">>), StringValue(<<>>), Null,
          StringValue(Placeholder(<<"q">>)),
          StringValue(<<"S", " ">> \o Placeholder(<<"a">>)) }
      ServerHypers ==
        { [ NoItem EXCEPT !.model = NULL, !.provider = NULL, !.temperature = NULL,
              !.maxTokens = NULL, !.topP = NULL, !.frequencyPenalty = NULL,
              !.presencePenalty = NULL, !.stopSequences = NULL, !.tools = NULL ],
          [ NoItem EXCEPT !.model = "gpt-4o-mini", !.provider = "azure",
              !.temperature = "0.1", !.maxTokens = "50", !.topP = "0.9",
              !.frequencyPenalty = "0.5", !.presencePenalty = "0.3",
              !.stopSequences = "[STOP]", !.tools = "[lookup]" ],
          [ NoItem EXCEPT !.temperature = "0.1" ] }
      ServerExtras ==
        { Undefined, ObjectValue(<< [key |-> PropertyNames.temperature, value |-> "5"] >>) }
  IN
    { [ h EXCEPT !.prompt = p, !.extra = e ] :
      p \in ServerPrompts, h \in ServerHypers, e \in ServerExtras }

\* The bodies of a 2xx response: no entities, an empty map, and a map with
\* an item for the root or for the child.
Bodies ==
  { [ hasEntities |-> FALSE ], [ hasEntities |-> TRUE, entities |-> <<>> ] }
  \cup { [ hasEntities |-> TRUE, entities |-> << [key |-> id, value |-> item] >> ] :
         id \in { ClientRootId, ChildId }, item \in ServerItems }

\* The ways makeRequest rejects: fetch rejects, the status is not 2xx, the
\* request is aborted on the timeout (client.ts 78-94).
TransportFailures == { "network", "status", "timeout" }

Init ==
  /\ pc = "call"
  /\ call \in ClientCalls
  /\ built = NoValue /\ request = NoValue /\ httpCount = 0 /\ steps = <<>>
  /\ response = NoValue /\ updated = NoValue /\ result = NoValue
  /\ evaluation = NoValue
  /\ IdleSubst
  /\ processor = NoValue

\* The call up to its await: the tree is constructed, outside the try
\* block, then flattened and sent (client.ts 102-116, 178-184, 210-216).
Start ==
  /\ pc = "call"
  /\ built' = BuildNode(call)
  /\ IF built'.tag = "err"
       THEN /\ result' = Rejected(built'.value)
            /\ steps' = <<"construct">>
            /\ pc' = "done"
            /\ UNCHANGED <<request, httpCount>>
       ELSE /\ request' = Return(RequestOf(call, built'.value))
            /\ httpCount' = httpCount + 1
            /\ steps' = <<"construct", "flatten", "send">>
            /\ pc' = "awaiting"
            /\ UNCHANGED result
  /\ UNCHANGED processor
  /\ UNCHANGED <<call, response, updated, evaluation, prompt, params,
                 substituted>>

\* makeRequest resolves: the rest of the try block, and the catch block if
\* it throws.
FetchResolves ==
  /\ pc = "awaiting"
  /\ \E body \in Bodies :
       LET attempt == Try(call, built.value, body) IN
       /\ response' = [kind |-> "ok", body |-> body]
       /\ updated' = attempt.updated
       /\ evaluation' = attempt.evaluation
       /\ result' = IF attempt.outcome.tag = "ok"
                      THEN Resolved(attempt.outcome.value)
                      ELSE Catch(call, built.value)
       /\ steps' = steps \o attempt.steps
                   \o (IF attempt.outcome.tag = "ok" THEN <<>> ELSE <<"fallback">>)
  /\ pc' = "done"
  /\ UNCHANGED processor
  /\ UNCHANGED <<call, built, request, httpCount, prompt, params, substituted>>

\* FetchFails with a retry: the failed request is sent once more instead of
\* the catch block.
FetchFailsRetried ==
  /\ pc = "awaiting"
  /\ httpCount < 2
  /\ \E kind \in TransportFailures : response' = [kind |-> kind]
  /\ httpCount' = httpCount + 1
  /\ steps' = Append(steps, "send")
  /\ UNCHANGED <<pc, call, built, request, updated, result, evaluation,
                 prompt, params, substituted, processor>>

\* makeRequest rejects: the catch block.
FetchFails ==
  /\ pc = "awaiting"
  /\ \E kind \in TransportFailures : response' = [kind |-> kind]
  /\ result' = Catch(call, built.value)
  /\ steps' = Append(steps, "fallback")
  /\ pc' = "done"
  /\ UNCHANGED processor
  /\ UNCHANGED <<call, built, request, httpCount, updated, evaluation, prompt,
                 params, substituted>>

Next == Start \/ FetchResolves \/ FetchFails

Spec == Init /\ [][Next]_vars

-----------------------------------------------------------------------------
(* makeRequest and track (client.ts 54-96, 241-282)                        *)

DEFAULT_TIMEOUT == 10000

\* What fetch settles with: a rejection with an Error of some name, or a
\* Response.  json is what response.json() settles with: a rejection with
\* the message of its SyntaxError, or the parsed value.
FetchRejection(name, message) ==
  [ kind |-> "rejects", name |-> name, message |-> message ]
FetchResponse(status, statusText, json) ==
  [ kind |-> "response", status |-> status, statusText |-> statusText,
    json |-> json ]

\* Parsed JSON values read as errorData: null, an object with its error and
\* message properties, and a value with neither (a string, a number, an
\* array).
JsonNull == [jt |-> "null"]
JsonObject(error, message) == [jt |-> "object", error |-> error, message |-> message]
JsonOther == [jt |-> "other"]
JsonRejects(message) == [jt |-> "rejects", message |-> message]

\* response.ok
Ok(status) == status >= 200 /\ status <= 299

ApiErrorMessage(status, detail) ==
  <<"Hone API error (", ToString(status), "): ">> \o detail

\* errorData.error || errorData.message || response.statusText, for an
\* errorData that is not null.
ErrorDetail(errorData, statusText) ==
  LET error == IF errorData.jt = "object" THEN errorData.error ELSE Undefined
      message == IF errorData.jt = "object" THEN errorData.message ELSE Undefined
  IN IF Truthy(error) THEN error.str
     ELSE IF Truthy(message) THEN message.str
     ELSE statusText

\* makeRequest: the value it resolves with or the Error it rejects with.
\* An error thrown in the try block passes through the catch block, which
\* replaces an AbortError.
makeRequest(answer, timeout) ==
  IF answer.kind = "rejects"
    THEN IF answer.name = "AbortError"
           THEN Throw(<<"Hone API request timed out after ",
                        ToString(timeout), "ms">>)
           ELSE Throw(answer.message)
  ELSE IF ~Ok(answer.status)
    THEN LET errorData == IF answer.json.jt = "rejects"
                            THEN JsonObject(Undefined, Undefined)
                            ELSE answer.json
         IN IF errorData = JsonNull
              THEN Throw(<<"Cannot read properties of null (reading 'error')">>)
              ELSE Throw(ApiErrorMessage(answer.status,
                                         ErrorDetail(errorData, answer.statusText)))
  ELSE IF answer.json.jt = "rejects"
    THEN Throw(answer.json.message)
    ELSE Return(answer.json)

-----------------------------------------------------------------------------
(* Messages of the providers, by their roles (part_016 89-455)             *)
(*                                                                         *)
(* A normalised message is given by its role.  An OpenAI message or choice *)
(* is given by its role; an Anthropic message by its role and its content  *)
(* (a string, a list of blocks given by their types, or neither); a Gemini *)
(* content by its role and its parts, a part being "text" (a text that is  *)
(* not empty), "functionCall", "functionResponse" or "other".              *)

\* extractOpenAIMessages: one message per choice, with the choice's role.
extractOpenAIMessages(resp) ==
  [k \in 1..Len(resp.choices) |-> resp.choices[k]]

\* extractAnthropicMessages: one message; its role is "assistant" when the
\* content has a tool_use block, and the response's role otherwise.
extractAnthropicMessages(resp) ==
  IF \E k \in 1..Len(resp.content) : resp.content[k] = "tool_use"
    THEN <<"assistant">>
    ELSE <<resp.role>>

\* extractGeminiMessages: per candidate with parts, a message when it has a
\* function call or a text; "model" and no role read "assistant".
extractGeminiMessages(resp) ==
  LET Has(parts, kind) == \E k \in 1..Len(parts) : parts[k] = kind
      Of(candidate) ==
        IF ~candidate.hasParts THEN <<>>
        ELSE IF Has(candidate.parts, "functionCall") THEN <<"assistant">>
        ELSE IF Has(candidate.parts, "text")
          THEN IF candidate.role = "model" \/ candidate.role = ""
                 THEN <<"assistant">> ELSE <<candidate.role>>
        ELSE <<>>
      RECURSIVE From(_)
      From(k) == IF k > Len(resp.candidates) THEN <<>>
                 ELSE Of(resp.candidates[k]) \o From(k + 1)
  IN From(1)

\* normalizeOpenAIMessages: the system, user, assistant and tool messages,
\* in order; a message of another role is left out.
normalizeOpenAIMessages(messages) ==
  LET Kept(role) == role \in { "system", "user", "assistant", "tool" }
  IN SelectSeq(messages, Kept)

\* normalizeAnthropicMessages: a string content gives one message; a list
\* of blocks gives one message when it has a text or tool_use block, and
\* then one tool message per tool_result block.
normalizeAnthropicMessages(messages) ==
  LET Has(blocks, type) == \E k \in 1..Len(blocks) : blocks[k] = type
      IsToolResult(type) == type = "tool_result"
      Of(m) ==
        IF m.content.kind = "string" THEN <<m.role>>
        ELSE IF m.content.kind = "blocks"
          THEN (IF Has(m.content.blocks, "text") \/ Has(m.content.blocks, "tool_use")
                  THEN <<m.role>> ELSE <<>>)
               \o [k \in 1..Len(SelectSeq(m.content.blocks, IsToolResult)) |-> "tool"]
        ELSE <<>>
      RECURSIVE From(_)
      From(k) == IF k > Len(messages) THEN <<>>
                 ELSE Of(messages[k]) \o From(k + 1)
  IN From(1)

\* normalizeGeminiContents: per content one message when it has a text or a
\* function call, its role "assistant" for "model" and "user" otherwise,
\* and then one tool message per function response.
normalizeGeminiContents(contents) ==
  LET Has(parts, kind) == \E k \in 1..Len(parts) : parts[k] = kind
      IsResponse(kind) == kind = "functionResponse"
      Of(c) ==
        (IF Has(c.parts, "text") \/ Has(c.parts, "functionCall")
           THEN <<IF c.role = "model" THEN "assistant" ELSE "user">>
           ELSE <<>>)
        \o [k \in 1..Len(SelectSeq(c.parts, IsResponse)) |-> "tool"]
      RECURSIVE From(_)
      From(k) == IF k > Len(contents) THEN <<>>
                 ELSE Of(contents[k]) \o From(k + 1)
  IN From(1)

\* The calls of track.  The inputs are an array of messages (given by their
\* roles), inputs of the three providers, and an object whose provider is
\* none of the three.
TrackCalls ==
  LET Text == [kind |-> "string"]
      Blocks(blocks) == [kind |-> "blocks", blocks |-> blocks]
      TrackInputs ==
        { [provider |-> "array", messages |-> ms] :
            ms \in { <<>>, <<"user">>, <<"user", "assistant">> } }
        \cup
        { [provider |-> "openai", messages |-> ms,
           response |-> [choices |-> cs]] :
            ms \in { <<"user">>, <<"system", "developer", "user", "tool">> },
            cs \in { <<"assistant">>, <<>> } }
        \cup
        { [provider |-> "anthropic", system |-> sys, messages |-> ms,
           response |-> r] :
            sys \in BOOLEAN,
            ms \in { << [role |-> "user", content |-> Text] >>,
                     << [role |-> "assistant",
                         content |-> Blocks(<<"text", "tool_use">>)],
                        [role |-> "user",
                         content |-> Blocks(<<"tool_result", "tool_result">>)],
                        [role |-> "user", content |-> [kind |-> "other"]] >> },
            r \in { [role |-> "assistant", content |-> <<"text">>],
                    [role |-> "user", content |-> <<"text", "tool_use">>] } }
        \cup
        { [provider |-> "gemini", systemInstruction |-> sys, contents |-> cs,
           response |-> [candidates |-> cands]] :
            sys \in BOOLEAN,
            cs \in { << [role |-> "user", parts |-> <<"text">>] >>,
                     << [role |-> "model", parts |-> <<"functionCall">>],
                        [role |-> "function",
                         parts |-> <<"functionResponse", "other">>] >> },
            cands \in { <<>>,
                        << [hasParts |-> TRUE, role |-> "model",
                            parts |-> <<"text">>] >>,
                        << [hasParts |-> FALSE, role |-> "model", parts |-> <<>>],
                           [hasParts |-> TRUE, role |-> "",
                            parts |-> <<"other">>],
                           [hasParts |-> TRUE, role |-> "user",
                            parts |-> <<"text", "functionCall">>] >> } }
        \cup { [provider |-> "other"] }
      TrackIds == { <<"r">>, <<"b">> }
  IN { [ method |-> "track", id |-> id, input |-> input,
         sessionId |-> "session-123" ] :
       id \in TrackIds, input \in TrackInputs }

\* What fetch settles with: two rejections, and the responses over some
\* statuses, status texts and JSON bodies.
FetchAnswers ==
  LET TrackStatuses == { 200, 400, 401, 500 }
      StatusTexts == { <<"F","o","r","b","i","d","d","e","n">>, <<>> }
      ErrorFields == { Undefined, StringValue(<<>>), StringValue(<<"E">>) }
      MessageFields == { Undefined, StringValue(<<>>), StringValue(<<"M">>) }
      JsonValues ==
        { JsonRejects(<<"Unexpected end of JSON input">>),
          JsonRejects(<<"Unexpected token '<', \"<html>\" is not valid JSON">>),
          JsonNull, JsonOther }
        \cup { JsonObject(e, msg) : e \in ErrorFields, msg \in MessageFields }
  IN { FetchRejection("TypeError", <<"fetch failed">>),
       FetchRejection("AbortError", <<"This operation was aborted">>) }
     \cup { FetchResponse(st, text, json) :
            st \in TrackStatuses, text \in StatusTexts, json \in JsonValues }

InitTrack ==
  /\ pc = "track"
  /\ call \in TrackCalls
  /\ built = NoValue /\ request = NoValue /\ httpCount = 0 /\ steps = <<>>
  /\ response = NoValue /\ updated = NoValue /\ result = NoValue
  /\ evaluation = NoValue
  /\ IdleSubst
  /\ processor = NoValue

\* track up to its await (client.ts 246-281): the input is normalised, or
\* refused, and the request is sent with the reading of the clock.
TrackStart ==
  LET input == call.input
      System(given) == IF given THEN <<"system">> ELSE <<>>
      known == input.provider \in { "array", "openai", "anthropic", "gemini" }
      normalizedMessages ==
        CASE input.provider = "array" -> input.messages
          [] input.provider = "openai" ->
               normalizeOpenAIMessages(input.messages)
               \o extractOpenAIMessages(input.response)
          [] input.provider = "anthropic" ->
               System(input.system)
               \o normalizeAnthropicMessages(input.messages)
               \o extractAnthropicMessages(input.response)
          [] input.provider = "gemini" ->
               System(input.systemInstruction)
               \o normalizeGeminiContents(input.contents)
               \o extractGeminiMessages(input.response)
      Timestamps == { "2024-01-01T00:00:00.000Z", "2024-06-30T12:00:00.000Z" }
  IN
  /\ pc = "track"
  /\ IF known
       THEN /\ \E timestamp \in Timestamps :
                 request' = Return([ id |-> call.id,
                                     messages |-> normalizedMessages,
                                     sessionId |-> call.sessionId,
                                     timestamp |-> timestamp ])
            /\ httpCount' = httpCount + 1
            /\ steps' = <<"send">>
            /\ pc' = "tracking"
            /\ UNCHANGED result
       ELSE /\ result' = Rejected(<<"Invalid track input: must be Message[] or provider-specific input">>)
            /\ pc' = "done"
            /\ UNCHANGED <<request, httpCount, steps>>
  /\ UNCHANGED processor
  /\ UNCHANGED <<call, built, response, updated, evaluation, prompt, params,
                 substituted>>

\* fetch settles, and with it makeRequest and track.
TrackSettles ==
  /\ pc = "tracking"
  /\ \E answer \in FetchAnswers :
       LET r == makeRequest(answer, DEFAULT_TIMEOUT) IN
       /\ response' = answer
       /\ result' = IF r.tag = "ok" THEN Resolved(UNDEF) ELSE Rejected(r.value)
  /\ pc' = "done"
  /\ UNCHANGED processor
  /\ UNCHANGED <<call, built, request, httpCount, steps, updated, evaluation,
                 prompt, params, substituted>>

NextTrack == TrackStart \/ TrackSettles

SpecTrack == InitTrack /\ [][NextTrack]_vars

-----------------------------------------------------------------------------
(* BackgroundProcessor (src/unnamed/part_018)                              *)
(*                                                                         *)
(* JavaScript runs one job at a time.  A timer callback and the            *)
(* continuation of a settled fetch or sleep are tasks; each runs up to the *)
(* next await, and is one action.  What goes on after an await of a        *)
(* promise of the processor (the finally callback of triggerFlush, the     *)
(* loop of flush(), the end of shutdown()) is a promise job: the jobs wait *)
(* in processor.jobs and run, one action each, before the next task.  The  *)
(* caller's code runs as a task of its own or as a reaction to a promise   *)
(* that enqueue(), flush() or shutdown() returned, so its calls may come   *)
(* before and after every promise job of the processor.                    *)

RETRYABLE_STATUS_CODES == { 408, 425, 429, 500, 502, 503, 504 }

MAX_QUEUE_SIZE_BYTES == 1048576

\* An Error with its name and message.
Err(name, message) == [name |-> name, message |-> message]

\* What fetch settles with in makeRequest (part_018 293-314): a rejection,
\* or a Response.  text is what response.text() settles with: the text of
\* the body, or a rejection.  success and errors are the properties of the
\* body that response.json() resolves with, errors being absent or a list
\* of strings.
Rejects(error) == [kind |-> "rejects", error |-> error]
Responds(status, statusText, text, success, errors) ==
  [ kind |-> "response", status |-> status, statusText |-> statusText,
    text |-> text, success |-> success, errors |-> errors ]

\* `HTTP ${response.status}: ${response.statusText}. ${errorBody}`, the
\* status in decimal digits.
HttpError(status, statusText, errorBody) ==
  LET RECURSIVE Decimal(_)
      Decimal(n) == IF n < 10 THEN <<ToString(n)>>
                    ELSE Append(Decimal(n \div 10), ToString(n % 10))
  IN Err(<<"E","r","r","o","r">>,
         <<"H","T","T","P"," ">> \o Decimal(status) \o <<":"," ">>
         \o statusText \o <<"."," ">> \o errorBody)

\* `API returned failure: ${result.errors?.join(', ') ?? 'Unknown error'}`
ApiFailure(errors) ==
  Err(<<"E","r","r","o","r">>,
      <<"A","P","I"," ","r","e","t","u","r","n","e","d"," ","f","a","i","l","u","r","e",":"," ">>
      \o (IF errors.present
            THEN Join(errors.items, <<",", " ">>)
            ELSE <<"U","n","k","n","o","w","n"," ","e","r","r","o","r">>))

\* String.prototype.toLowerCase on a string of ASCII characters.
ToLowerCase(str) ==
  LET upper == <<"A","B","C","D","E","F","G","H","I","J","K","L","M","N",
                 "O","P","Q","R","S","T","U","V","W","X","Y","Z">>
      lower == <<"a","b","c","d","e","f","g","h","i","j","k","l","m","n",
                 "o","p","q","r","s","t","u","v","w","x","y","z">>
      capitals == { upper[n] : n \in 1..26 }
      LowerChar(c) == IF c \in capitals
                        THEN lower[CHOOSE n \in 1..26 : upper[n] = c]
                        ELSE c
  IN [k \in 1..Len(str) |-> LowerChar(str[k])]

networkErrorIndicators ==
  << <<"E","C","O","N","N","R","E","F","U","S","E","D">>,
     <<"E","C","O","N","N","R","E","S","E","T">>,
     <<"E","T","I","M","E","D","O","U","T">>,
     <<"E","N","O","T","F","O","U","N","D">>,
     <<"E","N","E","T","U","N","R","E","A","C","H">>,
     <<"E","H","O","S","T","U","N","R","E","A","C","H">>,
     <<"n","e","t","w","o","r","k">>,
     <<"f","e","t","c","h">>,
     <<"a","b","o","r","t">> >>

\* String.prototype.includes
Includes(str, searchString) ==
  \E i \in 1..(Len(str) - Len(searchString) + 1) : StartsAt(str, searchString, i)

\* The message and the name are searched in lower case for each indicator
\* in lower case.
isNetworkError(error) ==
  LET errorString == ToLowerCase(error.message)
      name == ToLowerCase(error.name)
  IN \E k \in 1..Len(networkErrorIndicators) :
       LET indicator == ToLowerCase(networkErrorIndicators[k])
       IN Includes(errorString, indicator) \/ Includes(name, indicator)

\* The catch block of sendBatch (part_018 262-285) for attempt number
\* attempt: sleep and go on, throw, or fall out of the block into the next
\* iteration of the loop.
sendBatchCatch(error, attempt, maxRetries) ==
  IF isNetworkError(error) /\ attempt < maxRetries
    THEN [next |-> "sleep"]
  ELSE IF attempt >= maxRetries
    THEN [next |-> "throw"]
  ELSE [next |-> "again"]

\* One iteration of the loop of sendBatch (part_018 225-286) from the
\* moment fetch settles.
sendBatchAttempt(answer, attempt, maxRetries) ==
  IF answer.kind = "rejects"
    THEN sendBatchCatch(answer.error, attempt, maxRetries)
  ELSE IF ~Ok(answer.status)
    THEN IF answer.status \in RETRYABLE_STATUS_CODES /\ attempt < maxRetries
           THEN [next |-> "sleep"]
           ELSE LET errorBody ==
                      IF answer.text.rejects
                        THEN <<"U","n","k","n","o","w","n"," ","e","r","r","o","r">>
                        ELSE answer.text.value
                IN sendBatchCatch(HttpError(answer.status, answer.statusText,
                                            errorBody),
                                  attempt, maxRetries)
  ELSE IF ~answer.success
    THEN sendBatchCatch(ApiFailure(answer.errors), attempt, maxRetries)
  ELSE [next |-> "return"]

\* A processor as its constructor leaves it, with the bookkeeping of the
\* asynchronous calls: triggered counts the promises pendingFlush has held,
\* runs are the processQueue calls in flight, jobs the promise jobs that
\* wait for their turn, flushes the flush() calls, calls the enqueue()
\* calls and their promises, shutdown the position of the shutdown() call.
NewProcessor(config) ==
  [ config |-> config,
    queue |-> <<>>,
    flushTimer |-> FALSE,
    status |-> "idle",
    currentQueueSizeBytes |-> 0,
    pendingFlush |-> FALSE,
    triggered |-> 0,
    runs |-> {},
    jobs |-> <<>>,
    flushes |-> <<>>,
    calls |-> <<>>,
    shutdown |-> "none" ]

BatchIds(batch) == { batch[k] : k \in 1..Len(batch) }

\* resolve() or reject() called on the items ids.  A settled promise keeps
\* its state; settles counts the calls.
Settle(calls, ids, how) ==
  [ i \in 1..Len(calls) |->
      IF i \in ids
        THEN [ calls[i] EXCEPT !.promise = IF @ = "pending" THEN how ELSE @,
                               !.settles = @ + 1 ]
        ELSE calls[i] ]

\* Sum of estimateByteSize(item.call) over a batch.
RECURSIVE BatchBytes(_, _)
BatchBytes(calls, batch) ==
  IF Len(batch) = 0 THEN 0
  ELSE calls[Head(batch)].size + BatchBytes(calls, Tail(batch))

\* part_018 138-145
ensureFlushTimer(p) ==
  IF ~p.flushTimer /\ p.status # "shutdown"
    THEN [p EXCEPT !.flushTimer = TRUE]
    ELSE p

\* processQueue up to its await (part_018 172-191): the batch is taken and
\* the first request is sent.  owner is 0 for a call from triggerFlush and
\* the number of the flush() call otherwise.  repeatedAfter lists the
\* answers after which sendBatch sent the request again.
processQueue(p, owner) ==
  IF Len(p.queue) = 0 THEN p
  ELSE LET n == IF p.config.batchSize < Len(p.queue)
                  THEN p.config.batchSize ELSE Len(p.queue)
           batch == SubSeq(p.queue, 1, n)
       IN [ p EXCEPT
              !.status = "running",
              !.queue = SubSeq(@, n + 1, Len(@)),
              !.currentQueueSizeBytes = @ - BatchBytes(p.calls, batch),
              !.runs = @ \cup { [ owner |-> owner, batch |-> batch,
                                  attempt |-> 0, phase |-> "fetching",
                                  repeatedAfter |-> <<>> ] } ]

\* part_018 150-167, up to the await inside processQueue.
triggerFlush(p) ==
  IF p.pendingFlush \/ p.status = "shutdown" THEN p
  ELSE IF Len(p.queue) = 0 THEN p
  ELSE [ processQueue(p, 0) EXCEPT !.pendingFlush = TRUE, !.triggered = @ + 1 ]

\* The eviction loop of enqueue (part_018 97-113).
RECURSIVE DropOldest(_, _)
DropOldest(p, callSize) ==
  IF Len(p.queue) > 0
     /\ p.currentQueueSizeBytes + callSize > MAX_QUEUE_SIZE_BYTES
    THEN DropOldest(
           [ p EXCEPT
               !.queue = Tail(@),
               !.currentQueueSizeBytes = @ - p.calls[Head(p.queue)].size,
               !.calls = Settle(@, { Head(p.queue) }, "rejected") ],
           callSize)
    ELSE p

\* enqueue(call) for a call of callSize bytes (part_018 92-133).  late
\* records that shutdown() had been invoked before.
enqueue(p, callSize) ==
  LET id == Len(p.calls) + 1
      dropped == DropOldest(p, callSize)
      pushed == [ dropped EXCEPT
                    !.calls = Append(@, [ size |-> callSize,
                                          promise |-> "pending",
                                          settles |-> 0,
                                          late |-> p.shutdown # "none" ]),
                    !.queue = Append(@, id),
                    !.currentQueueSizeBytes = @ + callSize ]
      timed == ensureFlushTimer(pushed)
  IN IF Len(timed.queue) >= timed.config.batchSize
       THEN triggerFlush(timed)
       ELSE timed

\* flush() returns (part_018 369): its promise resolves, and the
\* shutdown() that awaited it (part_018 389) goes on in a promise job.
\* unsettled and queueLength record what is left at that moment.
FlushReturns(p, f) ==
  [ p EXCEPT
      !.flushes[f].phase = "resolved",
      !.flushes[f].unsettled =
          { i \in p.flushes[f].before : p.calls[i].promise = "pending" },
      !.flushes[f].queueLength = Len(p.queue),
      !.jobs = IF p.flushes[f].byShutdown
                 THEN Append(@, [kind |-> "shutdown", of |-> f]) ELSE @ ]

\* The while loop of flush (part_018 366-368) up to its next await.
FlushLoop(p, f) ==
  IF Len(p.queue) > 0
    THEN [ processQueue(p, f) EXCEPT !.flushes[f].phase = "awaitRun" ]
    ELSE FlushReturns(p, f)

\* flush() up to its first await (part_018 353-369).  before lists the
\* calls enqueued so far, awaits tells which promise of pendingFlush is
\* awaited.
flush(p, byShutdown) ==
  LET f == Len(p.flushes) + 1
      called == [ p EXCEPT
                    !.flushes = Append(@, [ phase |-> "awaitPending",
                                            awaits |-> p.triggered,
                                            byShutdown |-> byShutdown,
                                            before |-> 1..Len(p.calls),
                                            unsettled |-> {},
                                            queueLength |-> 0 ]) ]
  IN IF called.pendingFlush THEN called
     ELSE FlushLoop([called EXCEPT !.flushTimer = FALSE], f)

\* shutdown() up to its await (part_018 375-389).
shutdown(p) ==
  flush([ p EXCEPT !.status = "shutdown", !.flushTimer = FALSE,
                   !.shutdown = "invoked" ], TRUE)

\* The flush() calls that await the promise numbered awaited of
\* pendingFlush go on (part_018 355-357), in the order of their calls,
\* from the call f on: each clears the timer and enters its loop
\* (part_018 359-368).
RECURSIVE ResumeFlushes(_, _, _)
ResumeFlushes(p, f, awaited) ==
  IF f > Len(p.flushes) THEN p
  ELSE ResumeFlushes(IF p.flushes[f].phase = "awaitPending"
                        /\ p.flushes[f].awaits = awaited
                       THEN FlushLoop([p EXCEPT !.flushTimer = FALSE], f) ELSE p,
                     f + 1, awaited)

\* The callback of finally in triggerFlush (part_018 160-166).  The
\* promise that finally returned resolves after it, and the flush() calls
\* that await it go on in a later promise job.
triggerFlushFinally(p) ==
  LET cleared == [p EXCEPT !.pendingFlush = FALSE]
      timed == IF Len(cleared.queue) > 0 /\ cleared.status # "shutdown"
                 THEN ensureFlushTimer(cleared)
                 ELSE cleared
  IN IF \E f \in 1..Len(p.flushes) :
          p.flushes[f].phase = "awaitPending" /\ p.flushes[f].awaits = p.triggered
       THEN [ timed EXCEPT !.jobs = Append(@, [kind |-> "resume", of |-> p.triggered]) ]
       ELSE timed

\* processQueue from the settling of sendBatch on (part_018 193-216): the
\* promises of the batch are settled and the status is set.  What awaits
\* the promise of processQueue goes on in a promise job: the finally
\* callback of triggerFlush, or the loop of the flush() that made the call.
processQueueSettles(p, run, sent) ==
  LET settled == [ p EXCEPT
                     !.calls = Settle(@, BatchIds(run.batch),
                                      IF sent THEN "resolved" ELSE "rejected"),
                     !.runs = @ \ { run } ]
  IN [ settled EXCEPT
         !.status = IF Len(settled.queue) > 0 THEN "running" ELSE "idle",
         !.jobs = Append(@, IF run.owner = 0
                              THEN [kind |-> "finally", of |-> 0]
                              ELSE [kind |-> "loop", of |-> run.owner]) ]

\* Bounds of the processor's executions: calls of enqueue(), calls of
\* flush() from outside, and the largest maxRetries and batchSize of a
\* configuration.
MaxCalls == 4
MaxFlushCalls == 1
MaxRetries == 1
MaxBatchSize == 2

\* Sizes of the calls, by estimateByteSize: two fit under the limit and
\* three do not.
CallSizes == { 400000 }

\* The answers of the transport: fetch rejects; the batch is accepted; it
\* is refused with no errors listed and with the error "fetch timeout"; a
\* status that is not retryable, with a body that cannot be read and with
\* the body "network unreachable"; a retryable status.
Answers ==
  LET unread == [rejects |-> TRUE]
      Text(str) == [rejects |-> FALSE, value |-> str]
      absent == [present |-> FALSE]
      Listed(items) == [present |-> TRUE, items |-> items]
      BadRequest == <<"B","a","d"," ","R","e","q","u","e","s","t">>
  IN
  { Rejects(Err(<<"T","y","p","e","E","r","r","o","r">>,
                <<"f","e","t","c","h"," ","f","a","i","l","e","d">>)),
    Responds(200, <<"O","K">>, Text(<<>>), TRUE, absent),
    Responds(200, <<"O","K">>, Text(<<>>), FALSE, absent),
    Responds(200, <<"O","K">>, Text(<<>>), FALSE,
             Listed(<< <<"f","e","t","c","h"," ","t","i","m","e","o","u","t">> >>)),
    Responds(400, BadRequest, unread, FALSE, absent),
    Responds(400, BadRequest,
             Text(<<"n","e","t","w","o","r","k"," ","u","n","r","e","a","c","h","a","b","l","e">>),
             FALSE, absent),
    Responds(503,
             <<"S","e","r","v","i","c","e"," ","U","n","a","v","a","i","l","a","b","l","e">>,
             Text(<<>>), FALSE, absent) }

\* sendBatchAttempt over the answers, attempts and maxRetries of the
\* bounds, computed once.
sendBatchAttempts ==
  [ answer \in Answers, attempt \in 0..MaxRetries, maxRetries \in 0..MaxRetries |->
      sendBatchAttempt(answer, attempt, maxRetries) ]

\* sendBatch of a run from the settling of its fetch on: to the next
\* request, to the sleep before it, or to the end of processQueue.
sendBatch(p, run, answer) ==
  LET step == sendBatchAttempts[answer, run.attempt, p.config.maxRetries] IN
  IF step.next = "return" THEN processQueueSettles(p, run, TRUE)
  ELSE IF step.next = "throw" THEN processQueueSettles(p, run, FALSE)
  ELSE [ p EXCEPT
           !.runs = (@ \ { run }) \cup
             { [ run EXCEPT
                   !.repeatedAfter = Append(@, answer),
                   !.attempt = IF step.next = "again" THEN @ + 1 ELSE @,
                   !.phase = IF step.next = "again" THEN "fetching"
                             ELSE "sleeping" ] } ]

InitProcessor ==
  /\ pc = "processor"
  /\ processor \in { NewProcessor([batchSize |-> b, maxRetries |-> r]) :
                      b \in 1..MaxBatchSize, r \in 0..MaxRetries }
  /\ IdleCall
  /\ IdleSubst

Enqueue ==
  /\ pc = "processor"
  /\ Len(processor.calls) < MaxCalls
  /\ \E callSize \in CallSizes : processor' = enqueue(processor, callSize)
  /\ UNCHANGED <<pc, call, built, request, httpCount, steps, response,
                 updated, result, evaluation, prompt, params, substituted>>

\* The callback of the flush timer (part_018 140-143).
TimerFires ==
  /\ pc = "processor"
  /\ processor.jobs = <<>>
  /\ processor.flushTimer
  /\ processor' = triggerFlush([processor EXCEPT !.flushTimer = FALSE])
  /\ UNCHANGED <<pc, call, built, request, httpCount, steps, response,
                 updated, result, evaluation, prompt, params, substituted>>

Flush ==
  /\ pc = "processor"
  /\ Cardinality({ f \in 1..Len(processor.flushes) :
                      ~processor.flushes[f].byShutdown }) < MaxFlushCalls
  /\ processor' = flush(processor, FALSE)
  /\ UNCHANGED <<pc, call, built, request, httpCount, steps, response,
                 updated, result, evaluation, prompt, params, substituted>>

Shutdown ==
  /\ pc = "processor"
  /\ processor.shutdown = "none"
  /\ processor' = shutdown(processor)
  /\ UNCHANGED <<pc, call, built, request, httpCount, steps, response,
                 updated, result, evaluation, prompt, params, substituted>>

\* The fetch of a run settles, and sendBatch and processQueue go on up to
\* their next await or to their end.
FetchSettles ==
  /\ pc = "processor"
  /\ processor.jobs = <<>>
  /\ \E run \in processor.runs :
       /\ run.phase = "fetching"
       /\ \E answer \in Answers : processor' = sendBatch(processor, run, answer)
  /\ UNCHANGED <<pc, call, built, request, httpCount, steps, response,
                 updated, result, evaluation, prompt, params, substituted>>

\* The sleep before a retry ends (part_018 241-242, 274-275): the next
\* request is sent.
SleepEnds ==
  /\ pc = "processor"
  /\ processor.jobs = <<>>
  /\ \E run \in processor.runs :
       /\ run.phase = "sleeping"
       /\ processor' =
            [ processor EXCEPT
                !.runs = (@ \ { run }) \cup
                  { [run EXCEPT !.attempt = @ + 1, !.phase = "fetching"] } ]
  /\ UNCHANGED <<pc, call, built, request, httpCount, steps, response,
                 updated, result, evaluation, prompt, params, substituted>>

\* A promise job of the processor runs: the first that waits.  The end of
\* shutdown() waits one turn after the flush() it awaited returned and the
\* flush() calls that await pendingFlush three turns after the finally
\* callback, so the former may also run before the latter.
PromiseJob ==
  /\ pc = "processor"
  /\ \E i \in 1..Len(processor.jobs) :
       LET job == processor.jobs[i]
           rest == [ processor EXCEPT
                       !.jobs = SubSeq(@, 1, i - 1) \o SubSeq(@, i + 1, Len(@)) ]
       IN /\ \/ i = 1
             \/ /\ job.kind = "shutdown"
                /\ \A j \in 1..(i - 1) : processor.jobs[j].kind = "resume"
          /\ processor' =
               IF job.kind = "finally" THEN triggerFlushFinally(rest)
               ELSE IF job.kind = "resume" THEN ResumeFlushes(rest, 1, job.of)
               ELSE IF job.kind = "loop" THEN FlushLoop(rest, job.of)
               ELSE [ rest EXCEPT !.shutdown = "resolved" ]
  /\ UNCHANGED <<pc, call, built, request, httpCount, steps, response,
                 updated, result, evaluation, prompt, params, substituted>>

NextProcessor ==
  Enqueue \/ TimerFires \/ Flush \/ Shutdown \/ FetchSettles \/ SleepEnds
  \/ PromiseJob

SpecProcessor == InitProcessor /\ [][NextProcessor]_vars

\* The executions in which every armed timer fires, every request is
\* answered, every sleep ends and every promise job runs.
SpecProcessorLive ==
  /\ InitProcessor /\ [][NextProcessor]_vars
  /\ WF_vars(TimerFires) /\ WF_vars(FetchSettles) /\ WF_vars(SleepEnds)
  /\ WF_vars(PromiseJob)

-----------------------------------------------------------------------------
(* Vocabulary of the properties of construction                            *)

EntityTypes == { "agent", "tool", "prompt" }

\* The value is one of the three kinds of nested definition.
Recognised(v) ==
  /\ v.vt = "object"
  /\ isAgentOptions(v.obj) \/ isToolOptions(v.obj) \/ isTextPromptOptions(v.obj)

KindOf(o) ==
  IF isAgentOptions(o) THEN "agent" ELSE IF isToolOptions(o) THEN "tool" ELSE "prompt"

\* The positions of the nested definitions among the params of options.
NestedAt(options) ==
  { k \in 1..Len(options.params) : Recognised(options.params[k].value) }

\* The id chains of the caller's options: path, and every chain that extends
\* it through nested definitions.
RECURSIVE ChainsFrom(_, _)
ChainsFrom(path, options) ==
  { path } \cup
  UNION { ChainsFrom(Append(path, options.params[k].key),
                     options.params[k].value.obj) : k \in NestedAt(options) }

\* The last id of the chain is the id of one of its ancestors.
Repeats(path) ==
  Len(path) >= 2 /\ \E k \in 1..(Len(path) - 1) : path[k] = path[Len(path)]

HasAncestorNamedParameter(c) ==
  \E path \in ChainsFrom(<<c.id>>, c.options) : Repeats(path)

IsSelfReference(b) == b.tag = "err" /\ b.value[1] = "Self-referencing "
IsCircular(b) == b.tag = "err" /\ b.value[1] = "Circular "

\* The circular-reference error whose message renders path.
CircularError(type, path) ==
  [ tag |-> "err",
    value |-> <<"Circular ", type, " reference detected: ">>
              \o Join(path, <<" -> ">>) ]

\* The calls of getEntityNode that building (id, type, options) under
\* ancestors distinct ids can lead to.
RECURSIVE InvocationsFrom(_, _, _, _)
InvocationsFrom(id, type, options, ancestors) ==
  { [id |-> id, type |-> type, options |-> options, ancestorIds |-> ancestors] }
  \cup
  ( IF \E k \in 1..Len(ancestors) : ancestors[k] = id THEN {}
    ELSE UNION { InvocationsFrom(options.params[k].key,
                                 KindOf(options.params[k].value.obj),
                                 options.params[k].value.obj,
                                 Append(ancestors, id)) : k \in NestedAt(options) } )

Invocations(c) == InvocationsFrom(c.id, c.method, c.options, <<>>)

SelfKeyed(inv) == inv.options.hasParams /\ inv.id \in KeySet(inv.options.params)

\* The ids of a tree, parent before children.
RECURSIVE PreorderIds(_)
RECURSIVE PreorderIdsOf(_, _)
PreorderIds(node) == <<node.id>> \o PreorderIdsOf(node.children, 1)
PreorderIdsOf(children, k) ==
  IF k > Len(children) THEN <<>>
  ELSE PreorderIds(children[k]) \o PreorderIdsOf(children, k + 1)

NoRepeat(seq) == \A i, j \in 1..Len(seq) : seq[i] = seq[j] => i = j

ChildIds(node) == [k \in 1..Len(node.children) |-> node.children[k].id]

\* Ids are distinct along every path from node down, and among siblings.
RECURSIVE DistinctOnPaths(_, _)
DistinctOnPaths(node, ancestors) ==
  /\ node.id \notin ancestors
  /\ NoRepeat(ChildIds(node))
  /\ \A k \in 1..Len(node.children) :
       DistinctOnPaths(node.children[k], ancestors \cup { node.id })

\* No node under ancestors has an ancestor's id, its own id as a literal
\* key, or its own id as a child's id.
RECURSIVE AcyclicNoSelf(_, _)
AcyclicNoSelf(node, ancestors) ==
  /\ node.id \notin ancestors
  /\ node.id \notin KeySet(node.params)
  /\ \A k \in 1..Len(node.children) : node.children[k].id # node.id
  /\ \A k \in 1..Len(node.children) :
       AcyclicNoSelf(node.children[k], ancestors \cup { node.id })

-----------------------------------------------------------------------------
(* Properties of construction, under SpecTree                              *)

\* C1 as stated: whenever a nested definition's name equals the id of one
\* of its ancestors, construction throws the circular-reference error, and
\* the message renders a chain of the options from the root to the repeated
\* id.
C1_CircularWheneverAncestorNamed ==
  (pc # "tree" /\ HasAncestorNamedParameter(call)) =>
    \E path \in ChainsFrom(<<call.id>>, call.options), t \in EntityTypes :
      Repeats(path) /\ built = CircularError(t, path)

\* C1 as amended: whenever a nested definition's name equals the id of one
\* of its ancestors, construction throws and returns no tree, the error
\* being the self-reference or the circular-reference error; a
\* circular-reference error renders a chain of the options in root-to-leaf
\* order whose last id repeats an ancestor other than its parent.
C1_ThrowsOnAncestorName ==
  pc # "tree" =>
    /\ HasAncestorNamedParameter(call) =>
         IsSelfReference(built) \/ IsCircular(built)
    /\ IsCircular(built) =>
         \E path \in ChainsFrom(<<call.id>>, call.options), t \in EntityTypes :
           /\ Repeats(path)
           /\ path[Len(path)] # path[Len(path) - 1]
           /\ built = CircularError(t, path)

C1_Witness ==
  /\ pc = "constructed" /\ IsCircular(built)
  /\ \E path \in ChainsFrom(<<call.id>>, call.options) :
       Len(path) = 4 /\ built = CircularError("agent", path)

\* C2: every call of getEntityNode whose id is a key of its own params,
\* under a literal or under a nested definition, throws the self-reference
\* error naming its type and id; and a call whose options hold such a node
\* returns no tree.
C2_SelfReferenceThrown ==
  pc # "tree" =>
    /\ \A inv \in Invocations(call) :
         SelfKeyed(inv) =>
           getEntityNode(inv.id, inv.type, inv.options, inv.ancestorIds) =
             [ tag |-> "err",
               value |-> <<"Self-referencing ", inv.type, " detected: ",
                           inv.type, " \"">> \o inv.id
                         \o <<"\" cannot reference itself as a parameter">> ]
    /\ (\E inv \in Invocations(call) : SelfKeyed(inv)) => built.tag = "err"

C2_Witness ==
  /\ pc = "constructed" /\ IsSelfReference(built)
  /\ call.id \notin KeySet(call.options.params)
  /\ \E inv \in Invocations(call) :
       /\ SelfKeyed(inv) /\ Len(inv.ancestorIds) = 2
       /\ Get(inv.options.params, inv.id).vt = "string"

\* C9 as stated: no two nodes of a built tree have the same id.
C9_UniqueIds ==
  built.tag = "ok" => NoRepeat(PreorderIds(built.value))

\* C9 as amended: in a built tree ids are distinct along every root-to-node
\* path and among the children of each node (nodes of different subtrees
\* may share an id).
C9_UniqueOnPathsAndSiblings ==
  built.tag = "ok" => DistinctOnPaths(built.value, {})

C9_Witness ==
  /\ built.tag = "ok" /\ ~NoRepeat(PreorderIds(built.value))
  /\ DistinctOnPaths(built.value, {})

\* C10: in a built tree no node's id occurs among its ancestors' ids, among
\* the keys of its own literal params, or among its own children's ids.
C10_AcyclicNoSelf ==
  built.tag = "ok" => AcyclicNoSelf(built.value, {})

C10_Witness ==
  /\ built.tag = "ok"
  /\ \E k \in 1..Len(built.value.children) :
       /\ Len(built.value.children[k].children) > 0
       /\ Len(built.value.children[k].params) > 0

-----------------------------------------------------------------------------
(* Vocabulary of the properties of substitution and evaluation             *)

\* The template with every `{{key}}` it holds replaced by obj[key], the
\* inserted text being left as it is.
RECURSIVE SinglePassFrom(_, _, _)
SinglePassFrom(s, i, obj) ==
  IF i > Len(s) THEN <<>>
  ELSE LET hits == { k \in 1..Len(obj) : StartsAt(s, Placeholder(obj[k].key), i) } IN
       IF hits # {}
         THEN LET k == CHOOSE k \in hits : TRUE IN
              obj[k].value
              \o SinglePassFrom(s, i + Len(Placeholder(obj[k].key)), obj)
         ELSE <<s[i]>> \o SinglePassFrom(s, i + 1, obj)

SinglePass(template, obj) == SinglePassFrom(template, 1, obj)

\* The entries of obj in the order f.
Reordered(obj, f) == [k \in 1..Len(obj) |-> obj[f[k]]]

\* The nodes of a tree, children before their parent.
RECURSIVE Postorder(_)
RECURSIVE PostorderOf(_, _)
Postorder(node) == PostorderOf(node.children, 1) \o <<node>>
PostorderOf(children, k) ==
  IF k > Len(children) THEN <<>>
  ELSE Postorder(children[k]) \o PostorderOf(children, k + 1)

\* The identifiers of the node's template that are neither a literal param
\* of the node nor the id of one of its children: once each, in the order
\* of their first occurrence.
MissingIdentifiers(node) ==
  LET own == KeySet(node.params) \cup
             { node.children[k].id : k \in 1..Len(node.children) }
  IN Unique(SelectSeq(MatchAll(node.prompt, 1), LAMBDA name : name \notin own))

\* The params a node is substituted with when each child stands for the
\* result of evaluating its own subtree.
WithChildResults(node) ==
  node.params \o
  [ k \in 1..Len(node.children) |->
      [ key |-> node.children[k].id,
        value |-> evaluateEntity(node.children[k]).value ] ]

-----------------------------------------------------------------------------
(* Properties of substitution, under SpecSubst                             *)

\* C6: the result of insertParamsIntoPrompt is the template with every
\* `{{key}}` of the original template replaced by params[key], inserted
\* text never being replaced itself.
C6_SinglePass ==
  pc = "substDone" => substituted = SinglePass(prompt, params)

\* C7: insertParamsIntoPrompt yields the same string for every iteration
\* order of the keys of params.
C7_OrderIndependent ==
  pc = "substDone" =>
    \A f \in Permutations(1..Len(params)) :
      insertParamsIntoPrompt(prompt, Reordered(params, f)) = substituted

-----------------------------------------------------------------------------
(* Properties of evaluation, under SpecTree                                *)

\* C3: evaluateEntity raises the missing-parameter error exactly when some
\* evaluated node's template holds an identifier that is neither a literal
\* param nor a child id of that node; the message names the first such node
\* in evaluation order and lists its missing identifiers once each, in
\* first-occurrence order, with "parameters" for more than one.  Stated for
\* trees whose ids are distinct, where every node is evaluated until one
\* fails.
C3_MissingExactly ==
  (pc = "evaluated" /\ NoRepeat(PreorderIds(built.value))) =>
    LET failing == SelectSeq(Postorder(built.value),
                             LAMBDA n : MissingIdentifiers(n) # <<>>)
    IN IF failing = <<>>
         THEN evaluation.tag = "ok"
         ELSE Outcome(evaluation) =
                [ tag |-> "err",
                  value |-> <<"Missing parameter">>
                            \o (IF Len(MissingIdentifiers(failing[1])) > 1
                                  THEN <<"s">> ELSE <<>>)
                            \o <<" in ", failing[1].type, " \"">>
                            \o failing[1].id \o <<"\": ">>
                            \o Join(MissingIdentifiers(failing[1]), <<", ">>) ]

\* C8: in a tree that construction returned, every node that evaluates
\* does so to its template with each `{{c.id}}` replaced by the result of
\* evaluating the child c's own subtree (and each literal by its value).
C8_DepthFirstComposition ==
  pc = "evaluated" =>
    \A k \in 1..Len(Postorder(built.value)) :
      LET n == Postorder(built.value)[k]
          r == evaluateEntity(n)
      IN r.tag = "ok" => r.value = SinglePass(n.prompt, WithChildResults(n))

-----------------------------------------------------------------------------
(* Properties of the client, under Spec                                    *)

\* The call took the catch block.
FellBack == \E k \in 1..Len(steps) : steps[k] = "fallback"

\* The property of the result that holds the text.
TextKey(method) ==
  IF method = "agent" THEN PropertyNames.systemPrompt
  ELSE IF method = "tool" THEN PropertyNames.prompt ELSE PropertyNames.text

ScalarFields ==
  { "temperature", "maxTokens", "topP", "frequencyPenalty", "presencePenalty" }
ListFields == { "stopSequences", "tools" }

\* C4: in agent(), tool() and prompt() an error of construction or of
\* evaluation is never swallowed: the error construction throws rejects
\* the call, the missing-parameter error raised while evaluating the tree
\* overlaid with the response rejects the call instead of the local
\* fallback replacing it, and only a transport failure (network error,
\* non-2xx status, timeout) makes the call take the local fallback.
C4_ErrorsNeverSwallowed ==
  pc = "done" =>
    /\ built.tag = "err" => result = Rejected(built.value)
    /\ evaluation.tag = "err" => result = Rejected(evaluation.value)
    /\ FellBack => response.kind \in TransportFailures

\* C5: when the request fails (fetch rejects, non-2xx status, timeout) the
\* call still resolves; the text it returns is the evaluation of the
\* locally constructed tree, and for agent() every hyperparameter is the
\* caller's option value, null for an absent scalar and [] for absent
\* stopSequences or tools.
C5_FallbackAlwaysResolves ==
  (pc = "done" /\ built.tag = "ok" /\ response.kind \in TransportFailures) =>
    /\ result.state = "resolved"
    /\ evaluateEntity(built.value).tag = "ok"
    /\ Get(result.value, TextKey(call.method)) = evaluateEntity(built.value).value
    /\ call.method = "agent" =>
         /\ Get(result.value, PropertyNames.model) = call.options.model
         /\ Get(result.value, PropertyNames.provider) = call.options.provider
         /\ \A f \in ScalarFields :
              Get(result.value, PropertyNames[f]) = Coalesce(call.options[f], NULL)
         /\ \A f \in ListFields :
              Get(result.value, PropertyNames[f]) = Coalesce(call.options[f], EmptyList)

-----------------------------------------------------------------------------
(* Properties of construction: the params of the caller, under SpecTree    *)

\* The entries of a params object whose value is a string, as the literal
\* params they become, and the keys of the others.
LiteralEntries(entries) ==
  LET strings == SelectSeq(entries, LAMBDA e : e.value.vt = "string")
  IN [k \in 1..Len(strings) |-> [key |-> strings[k].key, value |-> strings[k].value.str]]

NonStringEntries(entries) == SelectSeq(entries, LAMBDA e : e.value.vt # "string")

\* The node, and every node below it, has the string entries of its options
\* as literal params and one child per other entry, in the order of params.
RECURSIVE Accounted(_, _)
Accounted(node, options) ==
  LET entries == IF options.hasParams THEN options.params ELSE <<>> IN
  /\ node.params = LiteralEntries(entries)
  /\ ChildIds(node) = Keys(NonStringEntries(entries))
  /\ \A k \in 1..Len(node.children) :
       Accounted(node.children[k], NonStringEntries(entries)[k].value.obj)

\* C11: construction accounts for every entry of params: a key with a string
\* value is a literal param of the built node, a key with any other value
\* is the id of a child, the children being in the iteration order of
\* params; no entry is dropped.
C11_EveryEntryAccounted ==
  built.tag = "ok" => Accounted(built.value, call.options)

-----------------------------------------------------------------------------
(* Properties of evaluation: the returned string, under SpecTree           *)

\* C12: whenever evaluateEntity returns a string rather than raising the
\* missing-parameter error, the string holds no `{{identifier}}`
\* placeholder.
C12_NoDanglingPlaceholder ==
  (pc = "evaluated" /\ evaluation.tag = "ok") =>
    MatchAll(evaluation.value, 1) = <<>>

-----------------------------------------------------------------------------
(* Properties of the overlay, under Spec                                   *)

\* The call got a body with entities and overlaid its tree with them.
Overlaid == pc = "done" /\ updated.tag = "ok"

\* Every node of the overlaid tree has, in each of the fields, the value of
\* the response item of its id where that is not null or undefined, and
\* the value of the local node otherwise.
RECURSIVE FieldsOverlaid(_, _, _, _)
FieldsOverlaid(node, overlaid, entityMap, fields) ==
  /\ \A f \in fields :
       overlaid[f] = Coalesce(Lookup(entityMap, node.id)[f], node[f])
  /\ Len(overlaid.children) = Len(node.children)
  /\ \A k \in 1..Len(node.children) :
       FieldsOverlaid(node.children[k], overlaid.children[k], entityMap, fields)

\* C13: in the tree agent() overlays with the response, every
\* node has in each hyperparameter field (model, provider, temperature,
\* maxTokens, topP, frequencyPenalty, presencePenalty, stopSequences,
\* tools), independently of the other fields, the server's value when the
\* item of its id has the field non-null, otherwise its local value,
\* otherwise none.
C13_OverlayPerField ==
  (Overlaid /\ call.method = "agent") =>
    FieldsOverlaid(built.value, updated.value, response.body.entities,
                   { HyperFields[i] : i \in 1..Len(HyperFields) })

-----------------------------------------------------------------------------
(* Properties of the result of agent(), under Spec                         *)

\* The call returned from its try block.
Succeeded == Overlaid /\ evaluation.tag = "ok" /\ result.state = "resolved"

\* The value of a field by precedence: the root item's when not null, else
\* the caller's option, else the default.
Precedence(f, default) ==
  Coalesce(Coalesce(Lookup(response.body.entities, call.id)[f],
                    call.options[f]), default)

\* C14: on a successful agent() call each of model, provider, temperature,
\* maxTokens, topP, frequencyPenalty and presencePenalty of the result is
\* the root item's value when that is non-null, else the caller's option,
\* else null; stopSequences and tools likewise with [] as the last default.
C14_ResultPrecedence ==
  (Succeeded /\ call.method = "agent") =>
    /\ \A f \in { "model", "provider" } \cup ScalarFields :
         Get(result.value, PropertyNames[f]) = Precedence(f, NULL)
    /\ \A f \in ListFields :
         Get(result.value, PropertyNames[f]) = Precedence(f, EmptyList)

-----------------------------------------------------------------------------
(* Properties of the overlay: templates and shape, under Spec              *)

\* The template the overlay policy gives a node: the prompt of the item of
\* its id when there is one and it is a non-empty string, else its own.
PolicyTemplate(node, entityMap) ==
  IF /\ node.id \in KeySet(entityMap)
     /\ Get(entityMap, node.id).prompt.vt = "string"
     /\ Len(Get(entityMap, node.id).prompt.str) > 0
    THEN Get(entityMap, node.id).prompt.str
    ELSE node.prompt

RECURSIVE TemplatesOverlaid(_, _, _)
TemplatesOverlaid(node, overlaid, entityMap) ==
  /\ overlaid.prompt = PolicyTemplate(node, entityMap)
  /\ Len(overlaid.children) = Len(node.children)
  /\ \A k \in 1..Len(node.children) :
       TemplatesOverlaid(node.children[k], overlaid.children[k], entityMap)

\* C15: in the overlaid tree of agent(), tool() and prompt() the template
\* of every node, root or nested, is the prompt the server returned for
\* its id when the response has an item for the id with a non-empty prompt,
\* and the local template otherwise.
C15_TemplatePolicy ==
  Overlaid => TemplatesOverlaid(built.value, updated.value, response.body.entities)

\* The server returned a prompt for the nested node only: the child has it
\* and the root keeps its own.
C15_Witness ==
  /\ Overlaid /\ call.method = "tool"
  /\ Len(built.value.children) = 1
  /\ KeySet(response.body.entities) = { ChildId }
  /\ updated.value.children[1].prompt = <<"S">>
  /\ built.value.children[1].prompt = <<"B">>
  /\ updated.value.prompt = built.value.prompt

\* The two trees have the same id, kind and literal params at every node
\* and the same children in the same order.
RECURSIVE SameShape(_, _)
SameShape(node, overlaid) ==
  /\ overlaid.id = node.id /\ overlaid.type = node.type
  /\ overlaid.params = node.params
  /\ Len(overlaid.children) = Len(node.children)
  /\ \A k \in 1..Len(node.children) :
       SameShape(node.children[k], overlaid.children[k])

\* C16: the overlay returns a tree of the shape of its input (same id, kind
\* and literal params at every node, same children in the same order) and
\* leaves its input as construction returned it, so that a fallback after
\* the overlay evaluates the tree from before the overlay.
C16_OverlayKeepsShape ==
  Overlaid =>
    /\ SameShape(built.value, updated.value)
    /\ built = BuildNode(call)
    /\ FellBack => result = Catch(call, BuildNode(call).value)

\* The overlay changed the root's template of a tree with a child, the
\* overlaid tree failed to evaluate, and the fallback returned the text of
\* the tree from before the overlay.
C16_Witness ==
  /\ Overlaid /\ FellBack
  /\ Len(built.value.children) = 1
  /\ updated.value.prompt # built.value.prompt
  /\ result.state = "resolved"
  /\ Get(result.value, TextKey(call.method)) = <<"B">>

-----------------------------------------------------------------------------
(* Properties of the overlay that changes nothing, under SpecTree          *)

\* The response has no item, or an item for every node that repeats the
\* node's own template with null hyperparameters.
RepeatsOwnTemplates(node, entityMap) ==
  \/ entityMap = <<>>
  \/ \A k \in 1..Len(traverseEntityNode(node)) :
       LET n == traverseEntityNode(node)[k] IN
       /\ n.id \in KeySet(entityMap)
       /\ Get(entityMap, n.id) = EchoItem(n)

\* C17: for every constructed tree, evaluating the tree overlaid with the
\* empty response map, or with a response that repeats each node's own
\* template with null hyperparameters, gives the string, or the error, that
\* evaluating the tree itself gives.
C17_UnchangedOverlayIsNoOp ==
  (pc = "overlaid" /\ RepeatsOwnTemplates(built.value, response.body.entities)) =>
    Outcome(evaluation) = Outcome(evaluateEntity(built.value))

\* A tree with a nested node, overlaid with the response that repeats the
\* templates, evaluates to a text.
C17_Witness ==
  /\ pc = "overlaid"
  /\ response.body.entities # <<>>
  /\ RepeatsOwnTemplates(built.value, response.body.entities)
  /\ \E k \in 1..Len(built.value.children) :
       Len(built.value.children[k].children) > 0
  /\ evaluation.tag = "ok" /\ Len(evaluation.value) > 0

-----------------------------------------------------------------------------
(* Properties of the memo of evaluateEntity, under SpecTree                *)

\* The set of the elements of a sequence.
Range(seq) == { seq[k] : k \in 1..Len(seq) }

\* C18: within one evaluateEntity call validation and substitution run at
\* most once per node id, a node reached after its id was memoized
\* returning the memoized string; the memo is empty when the call starts
\* and shared with no other call, so at the end it holds the ids this call
\* computed and nothing else, and after a call that returns these are the
\* ids of the tree.
C18_OncePerId ==
  pc \in { "evaluated", "overlaid" } =>
    /\ NoRepeat(evaluation.work)
    /\ Keys(evaluation.evaluated) = evaluation.work
    /\ evaluation.tag = "ok" =>
         /\ Range(evaluation.work) =
              Range(PreorderIds(IF pc = "evaluated" THEN built.value
                                ELSE updated.value))
         /\ evaluation.value = Get(evaluation.evaluated, call.id)

\* A tree in which two nodes share an id evaluates: fewer computations than
\* nodes.
C18_Witness ==
  /\ pc = "evaluated" /\ evaluation.tag = "ok"
  /\ ~NoRepeat(PreorderIds(built.value))
  /\ Len(evaluation.work) < Len(PreorderIds(built.value))

-----------------------------------------------------------------------------
(* Properties of formatEntityRequest, under SpecTree                       *)

\* The nodes of a tree, parent before children, children in order.
RECURSIVE PreorderNodes(_)
RECURSIVE PreorderNodesOf(_, _)
PreorderNodes(node) == <<node>> \o PreorderNodesOf(node.children, 1)
PreorderNodesOf(children, k) ==
  IF k > Len(children) THEN <<>>
  ELSE PreorderNodes(children[k]) \o PreorderNodesOf(children, k + 1)

\* The record is the one of the node.
RecordOf(item, node) ==
  /\ item.id = node.id /\ item.type = node.type /\ item.prompt = node.prompt
  /\ item.paramKeys = Keys(node.params) \o ChildIds(node)
  /\ item.childrenIds = ChildIds(node)
  /\ item.childrenTypes = [k \in 1..Len(node.children) |-> node.children[k].type]

\* C19: formatEntityRequest visits the tree in pre-order and, for a tree
\* with distinct ids, gives a map with exactly one record per node, keyed
\* by the node's id, with paramKeys the literal keys followed by the child
\* ids, childrenIds the child ids in order, childrenTypes the kinds of
\* those children, and rootId and rootType the root's id and kind.
C19_PreorderMap ==
  (pc = "flattened" /\ NoRepeat(PreorderIds(built.value))) =>
    LET entities == request.value.entities
        nodes == PreorderNodes(built.value)
    IN /\ Keys(entities.map) = PreorderIds(built.value)
       /\ \A k \in 1..Len(nodes) : RecordOf(entities.map[k].value, nodes[k])
       /\ entities.rootId = built.value.id
       /\ entities.rootType = built.value.type

-----------------------------------------------------------------------------
(* Evaluation of a node with nothing to substitute                         *)

\* The node has no children and its template holds no placeholder, that is,
\* no match of \{\{(\w+)\}\}.
NothingToSubstitute(node) ==
  /\ Len(node.children) = 0
  /\ Len(MatchAll(node.prompt, 1)) = 0

\* C21: a node with no children and a template without placeholder
\* evaluates to its template, unchanged, whatever literal params it carries.
C21_NoOpEvaluation ==
  (pc = "evaluated" /\ NothingToSubstitute(built.value))
    => Outcome(evaluation) = Return(built.value.prompt)

-----------------------------------------------------------------------------
(* Failures of track                                                       *)

\* The request of track was answered with a status outside 2xx.
AnsweredNotOk ==
  /\ pc = "done" /\ call.method = "track"
  /\ response # NoValue /\ response.kind = "response" /\ ~Ok(response.status)

\* The detail as stated: the error field of the body, else its message
\* field, else the status text; a field counts when it is a non-empty
\* string, and a body that is not parsed has no field.
StatedDetail ==
  LET json == response.json IN
  IF json.jt = "object" /\ json.error.vt = "string" /\ Len(json.error.str) > 0
    THEN json.error.str
  ELSE IF json.jt = "object" /\ json.message.vt = "string"
          /\ Len(json.message.str) > 0
    THEN json.message.str
  ELSE response.statusText

\* C22: when the request of track() is answered with a non-2xx status, the
\* promise rejects with 'Hone API error (<status>): <detail>', the detail
\* being the body's error field, else its message field, else the status
\* text.
C22_TrackRejectsWithApiError ==
  AnsweredNotOk
    => result = Rejected(ApiErrorMessage(response.status, StatedDetail))

-----------------------------------------------------------------------------
(* The runs of processQueue                                                *)

\* C25: at most one processQueue()/sendBatch() run of a processor is in
\* flight at any time, whichever of the flush timer, enqueue(), flush() and
\* shutdown() started it.
C25_FlushesNeverOverlap ==
  pc = "processor" => Cardinality(processor.runs) <= 1

-----------------------------------------------------------------------------
(* flush()                                                                 *)

\* flush() was called once, and shutdown() never: the runs in flight are
\* those of the timer, of enqueue() and of that flush().
OneFlushOnly ==
  /\ pc = "processor"
  /\ Len(processor.flushes) = 1
  /\ processor.shutdown = "none"

\* C23: when the promise of flush() resolves, the promise of every call
\* enqueued before flush() was invoked is settled and the queue is empty,
\* whatever enqueue() calls and timer or batch-size flushes run meanwhile.
C23_FlushSettlesEarlierCalls ==
  (OneFlushOnly /\ processor.flushes[1].phase = "resolved")
    => /\ processor.flushes[1].unsettled = {}
       /\ processor.flushes[1].queueLength = 0

-----------------------------------------------------------------------------
(* shutdown()                                                              *)

\* The calls that are in the queue or in the batch of a run in flight.
Held(p) ==
  BatchIds(p.queue) \cup UNION { BatchIds(run.batch) : run \in p.runs }

\* C24: a call enqueued after shutdown() was invoked is not added to the
\* queue, and once shutdown() has resolved the queue size stays 0.
C24_NoEnqueueAfterShutdown ==
  pc = "processor"
    => /\ \A i \in Held(processor) : ~processor.calls[i].late
       /\ processor.shutdown = "resolved" => Len(processor.queue) = 0

-----------------------------------------------------------------------------
(* sendBatch                                                               *)

\* An answer after which the request may be sent again: a response with a
\* status of RETRYABLE_STATUS_CODES, or a network error.
Retryable(answer) ==
  \/ answer.kind = "rejects"
  \/ answer.kind = "response" /\ answer.status \in RETRYABLE_STATUS_CODES

\* C26: sendBatch sends the request again only after a retryable status or
\* a network error, and at most maxRetries times; after any other non-ok
\* status, or an ok response with success=false, no further request is
\* made.
C26_RetriesOnlyRetryable ==
  pc = "processor"
    => \A run \in processor.runs :
         /\ Len(run.repeatedAfter) <= processor.config.maxRetries
         /\ \A k \in 1..Len(run.repeatedAfter) : Retryable(run.repeatedAfter[k])

-----------------------------------------------------------------------------
(* The steps of a client call                                              *)

StepOrder == <<"construct", "flatten", "send", "overlay", "evaluate">>

\* The steps of the call other than the fallback of the catch block.
OwnSteps == SelectSeq(steps, LAMBDA step : step # "fallback")

IsPrefix(s, t) == Len(s) <= Len(t) /\ SubSeq(t, 1, Len(s)) = s

InClientCall == pc \in { "call", "awaiting", "done" }

\* C27: a call of agent(), tool() or prompt() performs its steps in the
\* order construct, flatten, send, overlay, evaluate; it issues at most one
\* HTTP request, and none when the construction of the tree throws.
C27_StepOrderOneRequest ==
  InClientCall
    => /\ IsPrefix(OwnSteps, StepOrder)
       /\ \A k \in 1..Len(steps) : steps[k] = "fallback" => k = Len(steps)
       /\ httpCount <= 1
       /\ httpCount = Len(SelectSeq(steps, LAMBDA step : step = "send"))
       /\ (built # NoValue /\ built.tag = "err")
            => httpCount = 0 /\ request = NoValue

\* A call that went through all five steps with its one request, a call
\* whose request failed, and a call whose construction threw are all
\* possible; this is the first.
C27_Witness ==
  /\ pc = "done"
  /\ call.method \in Methods
  /\ steps = StepOrder
  /\ httpCount = 1
  /\ result.state = "resolved"

-----------------------------------------------------------------------------
(* The promises of enqueue()                                               *)

Enqueued(i) == pc = "processor" /\ Len(processor.calls) >= i

Settled(i) == Enqueued(i) /\ processor.calls[i].promise # "pending"

\* resolve or reject was called at most once for every call.
SettledAtMostOnce ==
  pc = "processor"
    => \A i \in 1..Len(processor.calls) : processor.calls[i].settles <= 1

\* C28: every promise enqueue() returns is eventually settled, and settled
\* exactly once, when the transport answers every request and the timers
\* fire, also for calls enqueued during a flush or around shutdown().
C28_EveryPromiseSettledOnce ==
  /\ []SettledAtMostOnce
  /\ \A i \in 1..MaxCalls : Enqueued(i) ~> Settled(i)

-----------------------------------------------------------------------------
(* The status of the processor                                             *)

\* C29: once shutdown() has set the status to 'shutdown', getStatus()
\* returns 'shutdown' ever after; no processQueue run sets it back to
\* 'running' or 'idle'.
C29_ShutdownAbsorbing ==
  (pc = "processor" /\ processor.shutdown # "none")
    => processor.status = "shutdown"

-----------------------------------------------------------------------------
(* The extra record in the result of agent()                               *)

\* The extra in effect on a successful call: the root item's, else the
\* caller's, else the empty object.
ExtraInEffect ==
  CoalesceValue(CoalesceValue(Lookup(response.body.entities, call.id).extra,
                              call.options.extra),
                EmptyObject)

\* The result's named fields, one by one, are what the call computed
\* without the extra: the evaluation of the overlaid tree, and the value of
\* each hyperparameter by precedence.
NamedFieldsKept ==
  /\ Get(result.value, PropertyNames.systemPrompt) = evaluation.value
  /\ \A f \in { "model", "provider" } \cup ScalarFields :
       Get(result.value, PropertyNames[f]) = Precedence(f, NULL)
  /\ \A f \in ListFields :
       Get(result.value, PropertyNames[f]) = Precedence(f, EmptyList)

\* C30: on a successful agent() call no key of the extra record, from the
\* response or from the caller, overrides systemPrompt or a named
\* hyperparameter field of the result.
C30_ExtraNeverOverrides ==
  (Succeeded /\ call.method = "agent" /\ ExtraInEffect.vt = "object")
    => NamedFieldsKept
====
